---- MODULE Spec2Model ----
(***************************************************************************)
(* Model of x402HTTPResourceServer (the HTTP layer of the x402 resource    *)
(* server): route lookup, processHTTPRequest, processSettlement.           *)
(*                                                                         *)
(* Strings that the code inspects character by character (route patterns, *)
(* request paths, methods) are sequences of one-character strings.  The    *)
(* Resource Authority (x402ResourceServer), the route callbacks and the    *)
(* paywall provider are collaborators: every call to one of them is        *)
(* answered nondeterministically, either with a value or with a throw.     *)
(***************************************************************************)
EXTENDS Integers, Sequences, FiniteSets, TLC

\* ------------------------------------------------------------------------
\* Values standing for JavaScript's undefined / null and for absent fields.
\* ------------------------------------------------------------------------
Undefined == "<undefined>"
Null == "<null>"

\* ------------------------------------------------------------------------
\* Character helpers
\* ------------------------------------------------------------------------
LowerCase ==
  {"a", "b", "c", "d", "e", "f", "g", "h", "i", "j", "k", "l", "m",
   "n", "o", "p", "q", "r", "s", "t", "u", "v", "w", "x", "y", "z"}

UpperOf ==
  [c \in LowerCase |->
     CASE c = "a" -> "A" [] c = "b" -> "B" [] c = "c" -> "C" [] c = "d" -> "D"
       [] c = "e" -> "E" [] c = "f" -> "F" [] c = "g" -> "G" [] c = "h" -> "H"
       [] c = "i" -> "I" [] c = "j" -> "J" [] c = "k" -> "K" [] c = "l" -> "L"
       [] c = "m" -> "M" [] c = "n" -> "N" [] c = "o" -> "O" [] c = "p" -> "P"
       [] c = "q" -> "Q" [] c = "r" -> "R" [] c = "s" -> "S" [] c = "t" -> "T"
       [] c = "u" -> "U" [] c = "v" -> "V" [] c = "w" -> "W" [] c = "x" -> "X"
       [] c = "y" -> "Y" [] c = "z" -> "Z"]

UpperChar(c) == IF c \in LowerCase THEN UpperOf[c] ELSE c

\* String.prototype.toUpperCase
toUpperCase(s) == [i \in 1..Len(s) |-> UpperChar(s[i])]

\* two characters are equal under the regex "i" flag
SameCharIgnoringCase(c, d) == UpperChar(c) = UpperChar(d)

\* index of the first element of s satisfying "is in set", or 0
FirstIndexIn(s, set) ==
  IF \E i \in 1..Len(s) : s[i] \in set
  THEN CHOOSE i \in 1..Len(s) : s[i] \in set /\ \A j \in 1..(i-1) : s[j] \notin set
  ELSE 0

\* ------------------------------------------------------------------------
\* normalizePath
\* ------------------------------------------------------------------------
\* Percent escapes that decodeURIComponent turns into one character.  Every
\* other "%" sequence that occurs in the modelled paths is malformed (it is
\* not followed by two hex digits) and makes decodeURIComponent throw.
HexPairs ==
  {<<"2", "F">>, <<"5", "C">>, <<"2", "5">>, <<"3", "F">>, <<"0", "A">>,
   <<"2", "2">>, <<"2", "3">>, <<"3", "2">>, <<"3", "3">>}

HexValue(a, b) ==
  CASE <<a, b>> = <<"2", "F">> -> "/"
    [] <<a, b>> = <<"5", "C">> -> "\\"
    [] <<a, b>> = <<"2", "5">> -> "%"
    [] <<a, b>> = <<"3", "F">> -> "?"
    [] <<a, b>> = <<"0", "A">> -> "\n"
    [] <<a, b>> = <<"2", "2">> -> "\""
    [] <<a, b>> = <<"2", "3">> -> "#"
    [] <<a, b>> = <<"3", "2">> -> "2"
    [] <<a, b>> = <<"3", "3">> -> "3"

RECURSIVE DecodeOk(_)
\* TRUE iff decodeURIComponent(s) does not throw URIError
DecodeOk(s) ==
  IF s = <<>> THEN TRUE
  ELSE IF s[1] # "%" THEN DecodeOk(Tail(s))
  ELSE /\ Len(s) >= 3
       /\ <<s[2], s[3]>> \in HexPairs
       /\ DecodeOk(SubSeq(s, 4, Len(s)))

RECURSIVE decodeURIComponent(_)
\* the decoded string, for s with DecodeOk(s)
decodeURIComponent(s) ==
  IF s = <<>> THEN <<>>
  ELSE IF s[1] # "%" THEN <<s[1]>> \o decodeURIComponent(Tail(s))
  ELSE <<HexValue(s[2], s[3])>> \o decodeURIComponent(SubSeq(s, 4, Len(s)))

\* path.split(/[?#]/)[0]
SplitQuery(path) ==
  LET i == FirstIndexIn(path, {"?", "#"})
  IN  IF i = 0 THEN path ELSE SubSeq(path, 1, i - 1)

\* .replace(/\\/g, "/")
ReplaceBackslashes(s) == [i \in 1..Len(s) |-> IF s[i] = "\\" THEN "/" ELSE s[i]]

RECURSIVE CollapseSlashes(_)
\* .replace(/\/+/g, "/")
CollapseSlashes(s) ==
  IF Len(s) < 2 THEN s
  ELSE IF s[1] = "/" /\ s[2] = "/" THEN CollapseSlashes(Tail(s))
  ELSE <<s[1]>> \o CollapseSlashes(Tail(s))

\* .replace(/(.+?)\/+$/, "$1"): the first match starts at the leftmost index
\* from which at least one character is followed only by slashes to the end;
\* the lazy group takes as few characters as possible.
StripTrailingSlashes(s) ==
  LET n == Len(s)
      \* candidates: the match is s[st..n], the group is s[st..e], e >= st,
      \* s[e+1..n] is a non-empty run of slashes
      Cand == {<<st, e>> \in (1..n) \X (1..n) :
                 /\ st <= e /\ e < n
                 /\ \A k \in (e+1)..n : s[k] = "/"}
  IN  IF Cand = {} THEN s
      ELSE LET st == CHOOSE x \in {c[1] : c \in Cand} : \A y \in {c[1] : c \in Cand} : x <= y
               e  == CHOOSE x \in {c[2] : c \in {d \in Cand : d[1] = st}} :
                       \A y \in {c[2] : c \in {d \in Cand : d[1] = st}} : x <= y
           IN  SubSeq(s, 1, e)

normalizePath(path) ==
  LET pathWithoutQuery == SplitQuery(path)
  IN  IF DecodeOk(pathWithoutQuery)
      THEN StripTrailingSlashes(CollapseSlashes(ReplaceBackslashes(
             decodeURIComponent(pathWithoutQuery))))
      ELSE path   \* catch { return path; }

\* ------------------------------------------------------------------------
\* parseRoutePattern: the RegExp is modelled by the token sequence it denotes
\* ------------------------------------------------------------------------
AnyRun == "<.*?>"       \* from "*":      .*? , a run of characters that "." accepts
Segment == "<[^/]+>"    \* from "[name]": one or more characters other than "/"

\* pattern.split(/\s+/): the pieces between runs of blanks
RECURSIVE SplitBlanks(_, _)
SplitBlanks(s, cur) ==
  IF s = <<>> THEN <<cur>>
  ELSE IF s[1] = " "
       THEN IF Len(s) >= 2 /\ s[2] = " "
            THEN SplitBlanks(Tail(s), cur)
            ELSE <<cur>> \o SplitBlanks(Tail(s), <<>>)
       ELSE SplitBlanks(Tail(s), Append(cur, s[1]))

RECURSIVE CompilePath(_)
\* the four .replace calls, for patterns whose brackets are balanced:
\* "*" becomes AnyRun, "[...]" (non-empty, no "]" inside) becomes Segment,
\* every other character is matched literally (regex specials are escaped)
CompilePath(p) ==
  IF p = <<>> THEN <<>>
  ELSE IF p[1] = "["
       THEN LET close == FirstIndexIn(Tail(p), {"]"})
            IN  IF close >= 2
                THEN <<Segment>> \o CompilePath(SubSeq(p, close + 2, Len(p)))
                ELSE <<"[">> \o CompilePath(Tail(p))
       ELSE IF p[1] = "*" THEN <<AnyRun>> \o CompilePath(Tail(p))
       ELSE <<p[1]>> \o CompilePath(Tail(p))

parseRoutePattern(pattern) ==
  LET parts == IF \E i \in 1..Len(pattern) : pattern[i] = " "
               THEN SplitBlanks(pattern, <<>>)
               ELSE <<<<"*">>, pattern>>
  IN  [verb |-> toUpperCase(parts[1]), regex |-> CompilePath(parts[2])]

\* the characters "." does not accept in a RegExp without the s flag
LineTerminators == {"\n", "\r"}

RECURSIVE RegexTest(_, _)
\* regex.test(s) for the anchored, case-insensitive expression ^...$
\* (flags "i" only: "." accepts no line terminator, "$" is the end of input)
RegexTest(toks, s) ==
  IF toks = <<>> THEN s = <<>>
  ELSE IF toks[1] = AnyRun
       THEN \E k \in 0..Len(s) :
              /\ \A i \in 1..k : s[i] \notin LineTerminators
              /\ RegexTest(Tail(toks), SubSeq(s, k + 1, Len(s)))
  ELSE IF toks[1] = Segment
       THEN \E k \in 1..Len(s) :
              /\ \A i \in 1..k : s[i] # "/"
              /\ RegexTest(Tail(toks), SubSeq(s, k + 1, Len(s)))
  ELSE /\ s # <<>>
       /\ SameCharIgnoringCase(toks[1], s[1])
       /\ RegexTest(Tail(toks), Tail(s))

\* ------------------------------------------------------------------------
\* The server's route table (constructor argument) and payment options
\* ------------------------------------------------------------------------
\* PaymentOption: payTo and price are static values or functions of the
\* request context ("dynamic")
Option(id, scheme, network, dyn) ==
  [id |-> id, scheme |-> scheme, network |-> network, dynamic |-> dyn]

OptA == Option("optA", "exact", "eip155:8453", FALSE)
OptB == Option("optB", "exact", "solana:mainnet", TRUE)
OptC == Option("optC", "exact", "eip155:8453", TRUE)

NoExtensions == [kind |-> "none", data |-> Undefined]
DeclaredExtensions == [kind |-> "declared", data |-> "bazaar"]

\* RouteConfig.  accepts is a single option (isArray FALSE) or an array.
RouteConfig(isArray, accepts, resource, customHtml, unpaid, ext) ==
  [isArray |-> isArray, accepts |-> accepts, resource |-> resource,
   description |-> "", mimeType |-> "",
   customPaywallHtml |-> customHtml, unpaidResponseBody |-> unpaid,
   extensions |-> ext]

\* the Record<string, RouteConfig> given to the constructor, in key order
RoutesConfig ==
  << [pattern |-> <<"G","E","T"," ","/","a","p","i","/","*">>,
      config  |-> RouteConfig(TRUE, <<OptA, OptB>>, Undefined, Undefined,
                              TRUE, DeclaredExtensions)],
     [pattern |-> <<"/","a","p","i","/","w">>,
      config  |-> RouteConfig(FALSE, OptC, "https://r/w", "<custom/>",
                              FALSE, NoExtensions)],
     [pattern |-> <<"/","i","t","e","m","s","/","[","i","]">>,
      config  |-> RouteConfig(FALSE, OptA, Undefined, Undefined,
                              FALSE, NoExtensions)] >>

\* constructor: one CompiledRoute per entry, in insertion order
compiledRoutes ==
  [i \in 1..Len(RoutesConfig) |->
     LET parsed == parseRoutePattern(RoutesConfig[i].pattern)
     IN  [verb |-> parsed.verb, regex |-> parsed.regex,
          config |-> RoutesConfig[i].config]]

NoRoute == 0

\* ------------------------------------------------------------------------
\* Route matching on its own: a server constructed with a one-route table
\* ------------------------------------------------------------------------
ProbePatterns ==
  { <<"G","E","T"," ","/","a","p","i","/","*">>,
    <<"g","e","t"," ","/","a","p","i","/","*">>,
    <<"/","a","p","i","/","*">>,
    <<"/","i","t","e","m","s","/","[","i","d","]">>,
    <<"P","O","S","T"," ","/","i","t","e","m","s","/","[","i","d","]">> }
ProbePaths ==
  { <<"/","a","p","i","/","a","n","y","t","h","i","n","g","/","n","e","s","t","e","d">>,
    <<"/","a","p","i","/","a","n","y","t","h","i","n","g">>,
    <<"/","a","p","i","/","%","0","A","x">>,
    <<"/","i","t","e","m","s","/","4","2">>,
    <<"/","i","t","e","m","s","/","4","2","/","s","u","b">>,
    <<"/","i","t","e","m","s">>,
    <<"/","I","T","E","M","S","/","4","2","/">>,
    <<"/","i","t","e","m","s","/","%">> }
ProbeMethods == { <<"G","E","T">>, <<"g","e","t">>, <<"P","O","S","T">>, <<"P","o","s","t">> }

\* RouteAccepts without the verb test
RouteAccepts_IgnoresVerb(route, normalizedPath, upperMethod) ==
  RegexTest(route.regex, normalizedPath)

\* the predicate of compiledRoutes.find, lines 596-597
RouteAccepts(route, normalizedPath, upperMethod) ==
  /\ RegexTest(route.regex, normalizedPath)
  /\ (route.verb = <<"*">> \/ route.verb = upperMethod)

\* getRouteConfig returning the last matching route
getRouteConfig_LastMatch(path, method) ==
  LET normalizedPath == normalizePath(path)
      upperMethod == toUpperCase(method)
      Matches(i) == RouteAccepts(compiledRoutes[i], normalizedPath, upperMethod)
  IN  IF \E i \in 1..Len(compiledRoutes) : Matches(i)
      THEN CHOOSE i \in 1..Len(compiledRoutes) :
             Matches(i) /\ \A j \in (i+1)..Len(compiledRoutes) : ~Matches(j)
      ELSE NoRoute

\* compiledRoutes.find(...): index of the first matching route, NoRoute if
\* none (the code returns matchingRoute?.config)
getRouteConfig(path, method) ==
  LET normalizedPath == normalizePath(path)
      upperMethod == toUpperCase(method)
      Matches(i) == RouteAccepts(compiledRoutes[i], normalizedPath, upperMethod)
  IN  IF \E i \in 1..Len(compiledRoutes) : Matches(i)
      THEN CHOOSE i \in 1..Len(compiledRoutes) :
             Matches(i) /\ \A j \in 1..(i-1) : ~Matches(j)
      ELSE NoRoute

\* Array.isArray(routeConfig.accepts) ? routeConfig.accepts : [routeConfig.accepts]
normalizePaymentOptions(routeConfig) ==
  IF routeConfig.isArray THEN routeConfig.accepts ELSE <<routeConfig.accepts>>

\* ------------------------------------------------------------------------
\* Collaborators: the answers they can give
\* ------------------------------------------------------------------------
\* a thrown value: an Error with a message, or something that is no Error
Thrown(isError, message) == [isError |-> isError, message |-> message]
NothingThrown == Thrown(FALSE, Undefined)

\* HTTPAdapter.getHeader for the two spellings the code asks for
HeaderAnswers ==
  { [lower |-> Undefined,  upper |-> Undefined],
    [lower |-> "",         upper |-> Undefined],
    [lower |-> "garbage",  upper |-> Undefined],
    [lower |-> "b64(p1)",  upper |-> Undefined],
    [lower |-> Undefined,  upper |-> "b64(p1)"] }
HeaderUnread == [lower |-> "<unread>", upper |-> "<unread>"]

\* HTTPAdapter.getAcceptHeader / getUserAgent, as sequences of tokens
AcceptAnswers == { <<"text/html", ",", "*/*">>, <<"application/json">> }
UserAgentAnswers == { <<"Mozilla", "/", "5.0">>, <<"curl", "/", "8">> }
Unread == <<"<unread>">>
AdapterUrl == "adapter.getUrl()"

\* String.prototype.includes for a one-token needle
Includes(text, needle) == \E i \in 1..Len(text) : text[i] = needle

\* decodePaymentSignatureHeader (codec): base64 JSON of a PaymentPayload
Proofs == {"p1", "p2"}
DecodeThrows(header) == header \notin {"b64(p1)", "b64(p2)"}
decodePaymentSignatureHeader(header) ==
  CASE header = "b64(p1)" -> "p1"
    [] header = "b64(p2)" -> "p2"

\* PaymentRequirements built by the authority for one option
Requirement(option) ==
  [option |-> option.id, scheme |-> option.scheme, network |-> option.network]
NoRequirement == [option |-> Undefined, scheme |-> Undefined, network |-> Undefined]

\* ResourceServer.buildPaymentRequirementsFromOptions(options, context)
BuildAnswers(options) ==
  { [throws |-> FALSE, thrown |-> NothingThrown,
     value |-> [i \in 1..Len(options) |-> Requirement(options[i])]],
    [throws |-> TRUE, thrown |-> Thrown(TRUE, "price resolution failed"),
     value |-> <<>>] }

\* ResourceServer.enrichExtensions(extensions, context)
EnrichAnswers(extensions) ==
  { [throws |-> FALSE, thrown |-> NothingThrown,
     value |-> [kind |-> "enriched", data |-> extensions.data]],
    [throws |-> TRUE, thrown |-> Thrown(TRUE, "extension hook failed"),
     value |-> extensions] }

\* ResourceServer.findMatchingRequirements(accepts, payload):
\* one of the offered requirements, undefined, or a throw
FindAnswers(accepts) ==
  { [throws |-> FALSE, thrown |-> NothingThrown, value |-> accepts[i]] :
      i \in 1..Len(accepts) }
  \cup { [throws |-> FALSE, thrown |-> NothingThrown, value |-> NoRequirement],
         [throws |-> TRUE, thrown |-> Thrown(TRUE, "unsupported x402 version"),
          value |-> NoRequirement] }

\* ResourceServer.verifyPayment(payload, requirements)
VerifyAnswers ==
  { [throws |-> FALSE, thrown |-> NothingThrown, isValid |-> TRUE,
     invalidReason |-> Undefined],
    [throws |-> FALSE, thrown |-> NothingThrown, isValid |-> FALSE,
     invalidReason |-> "insufficient_funds"],
    [throws |-> FALSE, thrown |-> NothingThrown, isValid |-> FALSE,
     invalidReason |-> Undefined],
    [throws |-> TRUE, thrown |-> Thrown(TRUE, "facilitator unreachable"),
     isValid |-> FALSE, invalidReason |-> Undefined],
    [throws |-> TRUE, thrown |-> Thrown(FALSE, Undefined),
     isValid |-> FALSE, invalidReason |-> Undefined] }

\* routeConfig.unpaidResponseBody(context)
NoUnpaidResponse == [contentType |-> Undefined, body |-> Undefined]
UnpaidAnswers ==
  { [throws |-> FALSE, thrown |-> NothingThrown,
     value |-> [contentType |-> "text/plain", body |-> "preview"]],
    [throws |-> TRUE, thrown |-> Thrown(TRUE, "preview failed"),
     value |-> NoUnpaidResponse] }

\* what is asked while rendering the paywall: paywallProvider.generateHtml,
\* and whether require("@x402/paywall") and its getPaywallHtml succeed
HtmlAnswers ==
  { [providerThrows |-> FALSE, packageWorks |-> TRUE],
    [providerThrows |-> FALSE, packageWorks |-> FALSE],
    [providerThrows |-> TRUE,  packageWorks |-> FALSE] }
NotRendered == [providerThrows |-> FALSE, packageWorks |-> FALSE]

\* ------------------------------------------------------------------------
\* Descriptors, codec and response construction
\* ------------------------------------------------------------------------
\* ResourceServer.createPaymentRequiredResponse(requirements, resourceInfo,
\*   error, extensions): the PaymentRequired descriptor
createPaymentRequiredResponse(requirements, resourceInfo, error, extensions) ==
  [x402Version |-> 2, error |-> error, resource |-> resourceInfo,
   accepts |-> requirements, extensions |-> extensions]

NoResourceInfo == [url |-> Undefined, description |-> "", mimeType |-> ""]
NoDescriptor ==
  [x402Version |-> 0, error |-> Undefined, resource |-> NoResourceInfo,
   accepts |-> <<>>, extensions |-> NoExtensions]

\* encodePaymentRequiredHeader / decodePaymentRequiredHeader (codec)
encodePaymentRequiredHeader(paymentRequired) ==
  [encoding |-> "base64(json)", of |-> paymentRequired]
decodePaymentRequiredHeader(encoded) == encoded.of

\* a response body: what kind of content, its text, and the descriptor it embeds
Body(kind, text, embeds) == [kind |-> kind, text |-> text, embeds |-> embeds]

\* a renderer asked for the page: the registered provider's generateHtml, or
\* getPaywallHtml of the optional package @x402/paywall
Rendering(fn, outcome) ==
  [fn |-> fn, payload |-> Null,
   requirements |-> [option |-> Undefined, scheme |-> Undefined, network |-> Undefined],
   outcome |-> outcome]

\* generatePaywallHTML going to the registered provider before it looks at
\* the route's custom HTML
generatePaywallHTML_ProviderFirst(paymentRequired, customHtml, provider, h) ==
  IF provider # Undefined
  THEN IF h.providerThrows
       THEN [throws |-> TRUE, html |-> Body("none", Undefined, NoDescriptor),
             provider |-> provider,
             asked |-> <<Rendering("paywallProvider.generateHtml", "threw")>>]
       ELSE [throws |-> FALSE, html |-> Body("providerHtml", provider, paymentRequired),
             provider |-> provider,
             asked |-> <<Rendering("paywallProvider.generateHtml", "returned")>>]
  ELSE IF customHtml # Undefined /\ customHtml # ""
  THEN [throws |-> FALSE, html |-> Body("customHtml", customHtml, NoDescriptor),
        provider |-> provider, asked |-> <<>>]
  ELSE IF h.packageWorks
  THEN [throws |-> FALSE, html |-> Body("packageHtml", "@x402/paywall", paymentRequired),
        provider |-> provider,
        asked |-> <<Rendering("paywall.getPaywallHtml", "returned")>>]
  ELSE [throws |-> FALSE, html |-> Body("fallbackHtml", "Payment Required", paymentRequired),
        provider |-> provider,
        asked |-> <<Rendering("paywall.getPaywallHtml", "threw")>>]

\* generatePaywallHTML.  provider is the registered paywallProvider or
\* Undefined; h answers the calls made while rendering.
\* Returns [throws, html, provider (this.paywallProvider as read, if read),
\* asked (the renderers asked)].
generatePaywallHTML(paymentRequired, customHtml, provider, h) ==
  IF customHtml # Undefined /\ customHtml # ""
  THEN [throws |-> FALSE, html |-> Body("customHtml", customHtml, NoDescriptor),
        provider |-> "<unread>", asked |-> <<>>]
  ELSE IF provider # Undefined
  THEN IF h.providerThrows
       THEN [throws |-> TRUE, html |-> Body("none", Undefined, NoDescriptor),
             provider |-> provider,
             asked |-> <<Rendering("paywallProvider.generateHtml", "threw")>>]
       ELSE [throws |-> FALSE, html |-> Body("providerHtml", provider, paymentRequired),
             provider |-> provider,
             asked |-> <<Rendering("paywallProvider.generateHtml", "returned")>>]
  ELSE IF h.packageWorks
  THEN [throws |-> FALSE, html |-> Body("packageHtml", "@x402/paywall", paymentRequired),
        provider |-> provider,
        asked |-> <<Rendering("paywall.getPaywallHtml", "returned")>>]
  ELSE \* require or getPaywallHtml threw: caught, the built-in page
       [throws |-> FALSE, html |-> Body("fallbackHtml", "Payment Required", paymentRequired),
        provider |-> provider,
        asked |-> <<Rendering("paywall.getPaywallHtml", "threw")>>]

\* createHTTPPaymentRequiredResponse putting the descriptor under another
\* header name
createHTTPPaymentRequiredResponse_OtherHeader(paymentRequired) ==
  [headers |-> ("X-PAYMENT" :> encodePaymentRequiredHeader(paymentRequired))]

\* createHTTPPaymentRequiredResponse
createHTTPPaymentRequiredResponse(paymentRequired) ==
  [headers |-> ("PAYMENT-REQUIRED" :> encodePaymentRequiredHeader(paymentRequired))]

NoResponse == [status |-> 0, headers |-> ("Content-Type" :> Undefined), body |-> Body("none", Undefined, NoDescriptor),
               isHtml |-> FALSE]

\* isWebBrowser going by the Accept header alone
isWebBrowser_AcceptOnly(accept, userAgent) == Includes(accept, "text/html")

\* isWebBrowser, from the adapter's two answers
isWebBrowser(accept, userAgent) ==
  Includes(accept, "text/html") /\ Includes(userAgent, "Mozilla")

\* createHTTPResponse always answering non-browsers with the default body
createHTTPResponse_IgnoresUnpaid(paymentRequired, isBrowser, customHtml, unpaidResponse, provider, h) ==
  IF isBrowser
  THEN LET page == generatePaywallHTML(paymentRequired, customHtml, provider, h)
       IN  IF page.throws
           THEN [throws |-> TRUE, thrown |-> Thrown(TRUE, "paywall provider failed"),
                 provider |-> page.provider, asked |-> page.asked,
                 response |-> NoResponse]
           ELSE [throws |-> FALSE, thrown |-> NothingThrown,
                 provider |-> page.provider, asked |-> page.asked,
                 response |-> [status |-> 402,
                               headers |-> ("Content-Type" :> "text/html"),
                               body |-> page.html,
                               isHtml |-> TRUE]]
  ELSE [throws |-> FALSE, thrown |-> NothingThrown,
        provider |-> "<unread>", asked |-> <<>>,
        response |-> [status |-> 402,
                      headers |-> createHTTPPaymentRequiredResponse(paymentRequired).headers
                                    @@ ("Content-Type" :> "application/json"),
                      body |-> Body("emptyObject", "{}", NoDescriptor),
                      isHtml |-> FALSE]]

\* createHTTPResponse.  Returns [throws, response].
createHTTPResponse(paymentRequired, isBrowser, customHtml, unpaidResponse, provider, h) ==
  IF isBrowser
  THEN LET page == generatePaywallHTML(paymentRequired, customHtml, provider, h)
       IN  IF page.throws
           THEN [throws |-> TRUE, thrown |-> Thrown(TRUE, "paywall provider failed"),
                 provider |-> page.provider, asked |-> page.asked,
                 response |-> NoResponse]
           ELSE [throws |-> FALSE, thrown |-> NothingThrown,
                 provider |-> page.provider, asked |-> page.asked,
                 response |-> [status |-> 402,
                               headers |-> ("Content-Type" :> "text/html"),
                               body |-> page.html,
                               isHtml |-> TRUE]]
  ELSE LET response == createHTTPPaymentRequiredResponse(paymentRequired)
           contentType == IF unpaidResponse # NoUnpaidResponse
                          THEN unpaidResponse.contentType ELSE "application/json"
           body == IF unpaidResponse # NoUnpaidResponse
                   THEN Body("unpaid", unpaidResponse.body, NoDescriptor)
                   ELSE Body("emptyObject", "{}", NoDescriptor)
       IN  [throws |-> FALSE, thrown |-> NothingThrown,
            provider |-> "<unread>", asked |-> <<>>,
            response |-> [status |-> 402,
                          headers |-> response.headers @@ ("Content-Type" :> contentType),
                          body |-> body,
                          isHtml |-> FALSE]]

\* extractPayment with the undecodable header handed on as if it were a payload
extractPayment_KeepsUndecoded(answer) ==
  LET header == IF answer.lower # Undefined /\ answer.lower # ""
                THEN answer.lower ELSE answer.upper
  IN  IF header # Undefined /\ header # ""
      THEN IF DecodeThrows(header) THEN header
           ELSE decodePaymentSignatureHeader(header)
      ELSE Null

\* extractPayment, from the adapter's answers for the two header names:
\* the decoded payload, or Null
extractPayment(answer) ==
  LET header == IF answer.lower # Undefined /\ answer.lower # ""
                THEN answer.lower ELSE answer.upper
  IN  IF header # Undefined /\ header # ""
      THEN IF DecodeThrows(header) THEN Null   \* caught, console.warn
           ELSE decodePaymentSignatureHeader(header)
      ELSE Null

\* ------------------------------------------------------------------------
\* State
\* ------------------------------------------------------------------------
VARIABLES
  call,             \* per running call: the operation, where it is suspended,
                    \* its locals, the collaborator calls it made, its outcome
  paywallProvider,  \* this.paywallProvider
  verified,         \* (payload, requirements) pairs returned as payment-verified
  settleLog,        \* the authority's record of settlePayment invocations
  startup,          \* how far initialize() has got on this server
  probe             \* a one-route server asked whether it gates a request

vars == <<call, paywallProvider, verified, settleLog, startup, probe>>

\* a (pattern, path, method) triple, and whether the server whose route
\* table is that one pattern gates the request
Probe(pattern, path, method, applied, gates) ==
  [pattern |-> pattern, path |-> path, method |-> method,
   applied |-> applied, gates |-> gates]
NoProbe == Probe(<<>>, <<>>, <<>>, FALSE, FALSE)

\* what the authority answers to hasRegisteredScheme and getSupportedKind
\* for a (network, scheme) pair, before it was asked
NoRegistry == [registered |-> {}, supported |-> {}, asked |-> FALSE]

\* the outcome of processHTTPRequest
HTTPProcessResult(type, payload, requirements, response) ==
  [type |-> type, paymentPayload |-> payload,
   paymentRequirements |-> requirements, response |-> response]
NoResult == HTTPProcessResult("none", Null, NoRequirement, NoResponse)

\* the value of "error" in catch (error), before anything was caught
NothingCaught == [isError |-> FALSE, message |-> "<nothing>"]

NoVerifyResult == [isValid |-> FALSE, invalidReason |-> Undefined, pending |-> TRUE]
\* how settlePayment answered, before it did
NoSettleAnswer ==
  [throws |-> "pending", message |-> Undefined,
   value |-> [success |-> FALSE, errorReason |-> Undefined, payer |-> Undefined,
              transaction |-> Undefined, network |-> Undefined]]
NoSettleResult == [success |-> FALSE, errorReason |-> Undefined, pending |-> TRUE]

\* an entry of the record of collaborator calls a call has made, with how
\* the collaborator answered
Invocation(fn, payload, requirements, outcome) ==
  [fn |-> fn, payload |-> payload, requirements |-> requirements, outcome |-> outcome]

IdleCall ==
  [op |-> "none", pc |-> "idle",
   path |-> <<>>, method |-> <<>>,
   header |-> HeaderUnread, accept |-> Unread, userAgent |-> Unread,
   route |-> NoRoute,
   paymentPayload |-> Null,
   requirements |-> <<>>,
   extensions |-> NoExtensions,
   paymentRequired |-> NoDescriptor,
   matchingRequirements |-> NoRequirement,
   verifyResult |-> NoVerifyResult,
   trace |-> <<>>,
   result |-> NoResult,
   thrown |-> NothingThrown,
   caught |-> NothingCaught,
   unpaidBody |-> NoUnpaidResponse,
   provider |-> "<unread>",
   registry |-> NoRegistry,
   errors |-> <<>>,
   requires |-> FALSE,
   settlePayload |-> Null,
   settleRequirements |-> NoRequirement,
   settleResult |-> NoSettleResult,
   settleAnswer |-> NoSettleAnswer]

\* one call at a time: a request is processed start to finish on one task
Slots == {1}

Init ==
  /\ call = [s \in Slots |-> IdleCall]
  /\ paywallProvider = Undefined
  /\ verified = {}
  /\ settleLog = <<>>
  /\ startup = "constructed"
  /\ probe = NoProbe

\* the collaborator call c is suspended on (its last one) has answered
Answered(c, outcome) == [c EXCEPT !.trace[Len(c.trace)].outcome = outcome]
\* c makes a collaborator call
Invoke(c, fn, payload, requirements, outcome) ==
  [c EXCEPT !.trace = Append(@, Invocation(fn, payload, requirements, outcome))]

Returned(c, result) == [c EXCEPT !.pc = "returned", !.result = result]
Raised(c, thrown) == [c EXCEPT !.pc = "raised", !.thrown = thrown]

\* ------------------------------------------------------------------------
\* processHTTPRequest, one operator per stretch between two awaits
\* ------------------------------------------------------------------------
Paths ==
  { <<"/","a","p","i","/","x">>,
    <<"/","a","p","i","/","w","/">>,
    <<"/","i","t","e","m","s","/","7">>,
    <<"/","o">> }
Methods == { <<"g","e","t">>, <<"P","O","S","T">> }

\* this.getRouteConfig(path, method) for the requests of the model
RouteLookup == [path \in Paths, method \in Methods |-> getRouteConfig(path, method)]

routeConfigOf(c) == compiledRoutes[c.route].config

resourceInfoOf(c) ==
  LET rc == routeConfigOf(c)
  IN  [url |-> IF rc.resource # Undefined /\ rc.resource # ""
               THEN rc.resource ELSE AdapterUrl,
       description |-> IF rc.description # "" THEN rc.description ELSE "",
       mimeType |-> IF rc.mimeType # "" THEN rc.mimeType ELSE ""]

\* VerificationError resolving the route's payment options anew for the
\* error descriptor
VerificationError_Rebuilds(c, reason) ==
  LET c1 == Invoke(c, "buildPaymentRequirementsFromOptions", Null, NoRequirement,
                   "returned")
      errorResponse ==
        createPaymentRequiredResponse(c.requirements, resourceInfoOf(c), reason,
                                      routeConfigOf(c).extensions)
  IN  Returned(c1, HTTPProcessResult("payment-error", Null, NoRequirement,
        createHTTPResponse(errorResponse, FALSE, Undefined, NoUnpaidResponse,
                           Undefined, NotRendered).response))

\* the payment-error result built on the verification paths (no match,
\* invalid, catch): a non-browser response without paywall or unpaid body
VerificationError(c, reason) ==
  LET errorResponse ==
        createPaymentRequiredResponse(c.requirements, resourceInfoOf(c), reason,
                                      routeConfigOf(c).extensions)
  IN  Returned(c, HTTPProcessResult("payment-error", Null, NoRequirement,
        createHTTPResponse(errorResponse, FALSE, Undefined, NoUnpaidResponse,
                           Undefined, NotRendered).response))

\* the catch block's reason
CaughtReason(thrown) ==
  IF thrown.isError THEN thrown.message ELSE "Payment verification failed"

\* the catch block rethrowing what it caught
Caught_Rethrows(c, thrown) == Raised([c EXCEPT !.caught = thrown], thrown)

\* lines 447-458: catch (error) of the verification block
Caught(c, thrown) ==
  VerificationError([c EXCEPT !.caught = thrown], CaughtReason(thrown))

\* Enter reading the payment header and asking the authority before it
\* looks the route up
Enter_BuildsBeforeLookup(path, method, headerAnswer) ==
  LET route == RouteLookup[path, method]
      c0 == [IdleCall EXCEPT !.op = "processHTTPRequest",
                             !.path = path, !.method = method, !.route = route,
                             !.header = headerAnswer]
  IN  IF route = NoRoute
      THEN Returned(Invoke(c0, "buildPaymentRequirementsFromOptions", Null,
                           NoRequirement, "returned"),
                    HTTPProcessResult("no-payment-required", Null,
                                      NoRequirement, NoResponse))
      ELSE Invoke([c0 EXCEPT !.pc = "awaitBuild",
                             !.paymentPayload = extractPayment(headerAnswer)],
                  "buildPaymentRequirementsFromOptions", Null, NoRequirement, "pending")

\* Enter starting the route's unpaid-response generator alongside
\* buildPaymentRequirementsFromOptions instead of after it
Enter_StartsUnpaidAlongside(path, method, headerAnswer) ==
  LET route == RouteLookup[path, method]
      c0 == [IdleCall EXCEPT !.op = "processHTTPRequest",
                             !.path = path, !.method = method, !.route = route]
      c1 == [c0 EXCEPT !.pc = "awaitBuild",
                       !.header = headerAnswer,
                       !.paymentPayload = extractPayment(headerAnswer)]
  IN  IF route = NoRoute
      THEN Returned(c0, HTTPProcessResult("no-payment-required", Null,
                                          NoRequirement, NoResponse))
      ELSE IF RoutesConfig[route].config.unpaidResponseBody
      THEN Invoke(Invoke(c1, "unpaidResponseBody", Null, NoRequirement, "pending"),
                  "buildPaymentRequirementsFromOptions", Null, NoRequirement, "pending")
      ELSE Invoke(c1, "buildPaymentRequirementsFromOptions", Null, NoRequirement,
                  "pending")

\* lines 339-367: route lookup, extractPayment, the call of
\* buildPaymentRequirementsFromOptions
Enter(path, method, headerAnswer) ==
  LET route == RouteLookup[path, method]
      c0 == [IdleCall EXCEPT !.op = "processHTTPRequest",
                             !.path = path, !.method = method, !.route = route]
  IN  IF route = NoRoute
      THEN Returned(c0, HTTPProcessResult("no-payment-required", Null,
                                          NoRequirement, NoResponse))
      ELSE Invoke([c0 EXCEPT !.pc = "awaitBuild",
                             !.header = headerAnswer,
                             !.paymentPayload = extractPayment(headerAnswer)],
                  "buildPaymentRequirementsFromOptions", Null, NoRequirement, "pending")

\* lines 391-400: the unpaid response
UnpaidResult(c, unpaidBody, accept, userAgent, provider, h) ==
  LET made == createHTTPResponse(c.paymentRequired, isWebBrowser(accept, userAgent),
                                 routeConfigOf(c).customPaywallHtml, unpaidBody,
                                 provider, h)
      c1 == [c EXCEPT !.accept = accept, !.userAgent = userAgent,
                      !.unpaidBody = unpaidBody,
                      !.provider = made.provider,
                      !.trace = @ \o made.asked]
  IN  IF made.throws THEN Raised(c1, made.thrown)
      ELSE Returned(c1, HTTPProcessResult("payment-error", Null, NoRequirement,
                                          made.response))

\* Verification without the "no matching requirements" return: verifyPayment
\* is called with whatever findMatchingRequirements gave
Verification_VerifiesUnmatched(c, f) ==
  IF f.throws
  THEN Caught(
         Invoke(c, "findMatchingRequirements", c.paymentPayload, NoRequirement, "threw"),
         f.thrown)
  ELSE Invoke([Invoke(c, "findMatchingRequirements", c.paymentPayload, f.value,
                      IF f.value = NoRequirement THEN "undefined" ELSE "returned")
                 EXCEPT !.pc = "awaitVerify", !.matchingRequirements = f.value],
              "verifyPayment", c.paymentPayload, f.value, "pending")

\* lines 403-426: findMatchingRequirements and the call of verifyPayment
Verification(c, f) ==
  IF f.throws
  THEN Caught(
         Invoke(c, "findMatchingRequirements", c.paymentPayload, NoRequirement, "threw"),
         f.thrown)
  ELSE IF f.value = NoRequirement
  THEN VerificationError(
         Invoke(c, "findMatchingRequirements", c.paymentPayload, NoRequirement, "undefined"),
         "No matching payment requirements")
  ELSE Invoke([Invoke(c, "findMatchingRequirements", c.paymentPayload, f.value, "returned")
                 EXCEPT !.pc = "awaitVerify", !.matchingRequirements = f.value],
              "verifyPayment", c.paymentPayload, f.value, "pending")

\* AfterBuild without the "no payment provided" return: a request without
\* payload goes on to verification
AfterBuild_NoUnpaidReturn(c, b, e, f, accept, userAgent, provider, h) ==
  IF b.throws THEN Raised(Answered(c, "threw"), b.thrown)
  ELSE
  LET rc == routeConfigOf(c)
      declared == rc.extensions # NoExtensions
      c0 == [Answered(c, "returned") EXCEPT !.requirements = b.value]
      c1 == IF declared
            THEN Invoke(c0, "enrichExtensions", Null, NoRequirement,
                        IF e.throws THEN "threw" ELSE "returned")
            ELSE c0
  IN  IF declared /\ e.throws THEN Raised(c1, e.thrown)
      ELSE
      LET extensions == IF declared THEN e.value ELSE rc.extensions
          paymentRequired ==
            createPaymentRequiredResponse(b.value, resourceInfoOf(c),
              IF c.paymentPayload = Null THEN "Payment required" ELSE Undefined,
              extensions)
      IN  Verification([c1 EXCEPT !.extensions = extensions,
                                  !.paymentRequired = paymentRequired], f)

\* lines 364-426: from the answer of buildPaymentRequirementsFromOptions to
\* the next await or the return
AfterBuild(c, b, e, f, accept, userAgent, provider, h) ==
  IF b.throws THEN Raised(Answered(c, "threw"), b.thrown)
  ELSE
  LET rc == routeConfigOf(c)
      declared == rc.extensions # NoExtensions
      c0 == [Answered(c, "returned") EXCEPT !.requirements = b.value]
      c1 == IF declared
            THEN Invoke(c0, "enrichExtensions", Null, NoRequirement,
                        IF e.throws THEN "threw" ELSE "returned")
            ELSE c0
  IN  IF declared /\ e.throws THEN Raised(c1, e.thrown)
      ELSE
      LET extensions == IF declared THEN e.value ELSE rc.extensions
          paymentRequired ==
            createPaymentRequiredResponse(b.value, resourceInfoOf(c),
              IF c.paymentPayload = Null THEN "Payment required" ELSE Undefined,
              extensions)
          c2 == [c1 EXCEPT !.extensions = extensions,
                           !.paymentRequired = paymentRequired]
      IN  IF c.paymentPayload = Null
          THEN IF rc.unpaidResponseBody
               THEN Invoke([c2 EXCEPT !.pc = "awaitUnpaid"],
                           "unpaidResponseBody", Null, NoRequirement, "pending")
               ELSE UnpaidResult(c2, NoUnpaidResponse, accept, userAgent, provider, h)
          ELSE Verification(c2, f)

\* lines 385-400: from the answer of unpaidResponseBody to the return
AfterUnpaid(c, u, accept, userAgent, provider, h) ==
  IF u.throws THEN Raised(Answered(c, "threw"), u.thrown)
  ELSE UnpaidResult(Answered(c, "returned"), u.value, accept, userAgent, provider, h)

\* AfterVerify without the isValid test
AfterVerify_IgnoresValidity(c, v) ==
  IF v.throws THEN Caught(Answered(c, "threw"), v.thrown)
  ELSE Returned([Answered(c, IF v.isValid THEN "valid" ELSE "invalid")
                   EXCEPT !.verifyResult = [isValid |-> v.isValid,
                                            invalidReason |-> v.invalidReason,
                                            pending |-> FALSE]],
                HTTPProcessResult("payment-verified", c.paymentPayload,
                                  c.matchingRequirements, NoResponse))

\* AfterVerify settling a valid payment right away
AfterVerify_SettlesEagerly(c, v) ==
  IF v.throws THEN Caught(Answered(c, "threw"), v.thrown)
  ELSE
  LET c1 == [Answered(c, IF v.isValid THEN "valid" ELSE "invalid")
               EXCEPT !.verifyResult = [isValid |-> v.isValid,
                                        invalidReason |-> v.invalidReason,
                                        pending |-> FALSE]]
  IN  IF ~v.isValid THEN VerificationError(c1, v.invalidReason)
      ELSE Returned(Invoke(c1, "settlePayment", c.paymentPayload,
                           c.matchingRequirements, "success"),
                    HTTPProcessResult("payment-verified", c.paymentPayload,
                                      c.matchingRequirements, NoResponse))

\* AfterVerify reporting a fixed reason instead of the authority's
AfterVerify_GenericReason(c, v) ==
  IF v.throws THEN Caught(Answered(c, "threw"), v.thrown)
  ELSE
  LET c1 == [Answered(c, IF v.isValid THEN "valid" ELSE "invalid")
               EXCEPT !.verifyResult = [isValid |-> v.isValid,
                                        invalidReason |-> v.invalidReason,
                                        pending |-> FALSE]]
  IN  IF ~v.isValid THEN VerificationError(c1, "Payment verification failed")
      ELSE Returned(c1, HTTPProcessResult("payment-verified", c.paymentPayload,
                                          c.matchingRequirements, NoResponse))

\* lines 423-458: from the answer of verifyPayment to the return
AfterVerify(c, v) ==
  IF v.throws THEN Caught(Answered(c, "threw"), v.thrown)
  ELSE
  LET c1 == [Answered(c, IF v.isValid THEN "valid" ELSE "invalid")
               EXCEPT !.verifyResult = [isValid |-> v.isValid,
                                        invalidReason |-> v.invalidReason,
                                        pending |-> FALSE]]
  IN  IF ~v.isValid THEN VerificationError(c1, v.invalidReason)
      ELSE Returned(c1, HTTPProcessResult("payment-verified", c.paymentPayload,
                                          c.matchingRequirements, NoResponse))

\* ------------------------------------------------------------------------
\* processSettlement
\* ------------------------------------------------------------------------
\* SettleResponse as the authority reports it
SettleResponse(success, errorReason, payer, transaction, network) ==
  [success |-> success, errorReason |-> errorReason, payer |-> payer,
   transaction |-> transaction, network |-> network]

\* ResourceServer.settlePayment(payload, requirements): a success, a
\* reported failure (with or without errorReason), a SettleError (with or
\* without errorReason), another Error, or a thrown value that is no Error.
\* For a throw, value holds the fields of the thrown error.
SettleAnswers(requirements) ==
  { [throws |-> "no", message |-> Undefined,
     value |-> SettleResponse(TRUE, Undefined, "0xpayer", "0xtx", requirements.network)],
    [throws |-> "no", message |-> Undefined,
     value |-> SettleResponse(FALSE, "insufficient_funds", "0xpayer", "", requirements.network)],
    [throws |-> "no", message |-> Undefined,
     value |-> SettleResponse(FALSE, Undefined, Undefined, "", requirements.network)],
    [throws |-> "SettleError", message |-> "Settlement failed: 500",
     value |-> SettleResponse(FALSE, "transaction_reverted", "0xpayer", "0xtx", "eip155:1")],
    [throws |-> "SettleError", message |-> "Settlement failed: 500",
     value |-> SettleResponse(FALSE, Undefined, Undefined, "", "eip155:1")],
    [throws |-> "Error", message |-> "socket hang up",
     value |-> SettleResponse(FALSE, Undefined, Undefined, "", Undefined)],
    [throws |-> "value", message |-> Undefined,
     value |-> SettleResponse(FALSE, Undefined, Undefined, "", Undefined)] }

\* encodePaymentResponseHeader (codec)
encodePaymentResponseHeader(settleResponse, requirements) ==
  [encoding |-> "base64(json)", of |-> settleResponse, requirements |-> requirements]

\* createSettlementHeaders leaving the requirement out of the receipt
createSettlementHeaders_OmitsRequirements(settleResponse, requirements) ==
  ("PAYMENT-RESPONSE" :>
     [encoding |-> "base64(json)", of |-> settleResponse,
      requirements |-> [option |-> Undefined, scheme |-> Undefined,
                        network |-> Undefined]])

\* createSettlementHeaders
createSettlementHeaders(settleResponse, requirements) ==
  ("PAYMENT-RESPONSE" :> encodePaymentResponseHeader(settleResponse, requirements))

\* ReportedReason without the default
ReportedReason_NoDefault(settleResponse) == settleResponse.errorReason

\* line 479: settleResponse.errorReason || "Settlement failed"
ReportedReason(settleResponse) ==
  IF settleResponse.errorReason # Undefined /\ settleResponse.errorReason # ""
  THEN settleResponse.errorReason ELSE "Settlement failed"

\* CaughtSettlement treating a SettleError like any other Error
CaughtSettlement_Generic(c, a) ==
  [success |-> FALSE,
   errorReason |-> IF a.throws \in {"Error", "SettleError"} THEN a.message
                   ELSE "Settlement failed",
   payer |-> Undefined,
   transaction |-> "",
   network |-> c.settleRequirements.network]

\* lines 489-505: the catch block's result
CaughtSettlement(c, a) ==
  IF a.throws = "SettleError"
  THEN [success |-> FALSE,
        errorReason |-> IF a.value.errorReason # Undefined /\ a.value.errorReason # ""
                        THEN a.value.errorReason ELSE a.message,
        payer |-> a.value.payer,
        transaction |-> a.value.transaction,
        network |-> a.value.network]
  ELSE [success |-> FALSE,
        errorReason |-> IF a.throws = "Error" THEN a.message ELSE "Settlement failed",
        payer |-> Undefined,
        transaction |-> "",
        network |-> c.settleRequirements.network]

\* settlePayment has answered with a
Settled(c, a, outcome) == [Answered(c, outcome) EXCEPT !.settleAnswer = a]

\* AfterSettle calling settlePayment again after a reported failure
AfterSettle_Retries(c, a) ==
  IF a.throws # "no"
  THEN [Settled(c, a, "threw") EXCEPT !.pc = "returned",
                                    !.settleResult = CaughtSettlement(c, a)]
  ELSE IF ~a.value.success
  THEN Invoke(Settled(c, a, "failure"), "settlePayment", c.settlePayload,
              c.settleRequirements, "pending")
  ELSE [Settled(c, a, "success") EXCEPT
          !.pc = "returned",
          !.settleResult = [success |-> TRUE,
                            errorReason |-> a.value.errorReason,
                            payer |-> a.value.payer,
                            transaction |-> a.value.transaction,
                            network |-> a.value.network,
                            headers |-> createSettlementHeaders(a.value, c.settleRequirements),
                            requirements |-> c.settleRequirements]]

\* lines 473-505: from the answer of settlePayment to the return
AfterSettle(c, a) ==
  IF a.throws # "no"
  THEN [Settled(c, a, "threw") EXCEPT !.pc = "returned",
                                    !.settleResult = CaughtSettlement(c, a)]
  ELSE IF ~a.value.success
  THEN [Settled(c, a, "failure") EXCEPT
          !.pc = "returned",
          !.settleResult = [success |-> FALSE,
                            errorReason |-> ReportedReason(a.value),
                            payer |-> a.value.payer,
                            transaction |-> a.value.transaction,
                            network |-> a.value.network]]
  ELSE [Settled(c, a, "success") EXCEPT
          !.pc = "returned",
          !.settleResult = [success |-> TRUE,
                            errorReason |-> a.value.errorReason,
                            payer |-> a.value.payer,
                            transaction |-> a.value.transaction,
                            network |-> a.value.network,
                            headers |-> createSettlementHeaders(a.value, c.settleRequirements),
                            requirements |-> c.settleRequirements]]

\* EnterSettlement settling the route's first option instead of the
\* requirements it was given
EnterSettlement_OtherRequirements(paymentPayload, requirements) ==
  Invoke([IdleCall EXCEPT !.op = "processSettlement", !.pc = "awaitSettle",
                          !.settlePayload = paymentPayload,
                          !.settleRequirements = requirements],
         "settlePayment", paymentPayload, Requirement(OptA), "pending")

\* lines 468-473: the call of settlePayment with the arguments as given
EnterSettlement(paymentPayload, requirements) ==
  Invoke([IdleCall EXCEPT !.op = "processSettlement", !.pc = "awaitSettle",
                          !.settlePayload = paymentPayload,
                          !.settleRequirements = requirements],
         "settlePayment", paymentPayload, requirements, "pending")

\* what callers hand to processSettlement
SettleRequirements == {Requirement(OptA), Requirement(OptC)}

\* the number of settlePayment invocations explored
MaxSettle == 2

\* ------------------------------------------------------------------------
\* Actions
\* ------------------------------------------------------------------------
Available(s) == call[s].pc \in {"idle", "returned", "raised"}

\* the collaborator calls made in the step that takes a call from old to new
NewInvocations(old, new) ==
  IF old.pc \in {"idle", "returned", "raised"} THEN new.trace
  ELSE SubSeq(new.trace, Len(old.trace) + 1, Len(new.trace))

SelectFn(seq, fn) == SelectSeq(seq, LAMBDA x : x.fn = fn)

\* slot s moves to c: the authority records the settlePayment invocations of
\* the step, and a payment-verified result is remembered
Advance(s, c) ==
  /\ call' = [call EXCEPT ![s] = c]
  /\ settleLog' = settleLog \o
       [i \in 1..Len(SelectFn(NewInvocations(call[s], c), "settlePayment")) |->
          <<SelectFn(NewInvocations(call[s], c), "settlePayment")[i].payload,
            SelectFn(NewInvocations(call[s], c), "settlePayment")[i].requirements>>]
  /\ verified' = IF c.op = "processHTTPRequest" /\ c.pc = "returned"
                    /\ c.result.type = "payment-verified"
                 THEN verified \cup {<<c.result.paymentPayload,
                                       c.result.paymentRequirements>>}
                 ELSE verified
  /\ UNCHANGED <<paywallProvider, startup, probe>>

ProcessHTTPRequest(s) ==
  /\ Available(s)
  /\ \E path \in Paths, method \in Methods, ha \in HeaderAnswers :
       Advance(s, Enter(path, method, ha))

\* the adapter and renderer answers asked for when a response is rendered
\* in this step (none otherwise)
RenderAnswers(rendering) ==
  IF rendering
  THEN {[accept |-> a, userAgent |-> u, html |-> h] :
          a \in AcceptAnswers, u \in UserAgentAnswers, h \in HtmlAnswers}
  ELSE {[accept |-> Unread, userAgent |-> Unread, html |-> NotRendered]}

NotAsked == [throws |-> FALSE, thrown |-> NothingThrown, value |-> NoRequirement]

BuildSettles(s) ==
  /\ call[s].op = "processHTTPRequest" /\ call[s].pc = "awaitBuild"
  /\ LET c == call[s]
         rc == routeConfigOf(c)
         unpaid == c.paymentPayload = Null
     IN  \E b \in BuildAnswers(normalizePaymentOptions(rc)) :
         \E e \in IF b.throws \/ rc.extensions = NoExtensions
                  THEN {[throws |-> FALSE, thrown |-> NothingThrown, value |-> rc.extensions]}
                  ELSE EnrichAnswers(rc.extensions) :
         \E f \in IF b.throws \/ e.throws \/ unpaid
                  THEN {NotAsked} ELSE FindAnswers(b.value) :
         \E r \in RenderAnswers(~b.throws /\ ~e.throws /\ unpaid /\ ~rc.unpaidResponseBody) :
           Advance(s, AfterBuild(c, b, e, f, r.accept, r.userAgent, paywallProvider, r.html))

UnpaidSettles(s) ==
  /\ call[s].op = "processHTTPRequest" /\ call[s].pc = "awaitUnpaid"
  /\ \E u \in UnpaidAnswers :
     \E r \in RenderAnswers(~u.throws) :
       Advance(s, AfterUnpaid(call[s], u, r.accept, r.userAgent, paywallProvider, r.html))

VerifySettles(s) ==
  /\ call[s].op = "processHTTPRequest" /\ call[s].pc = "awaitVerify"
  /\ \E v \in VerifyAnswers : Advance(s, AfterVerify(call[s], v))

ProcessSettlement(s) ==
  /\ Available(s)
  /\ Len(settleLog) < MaxSettle
  /\ \E paymentPayload \in Proofs, requirements \in SettleRequirements :
       Advance(s, EnterSettlement(paymentPayload, requirements))

SettleSettles(s) ==
  /\ call[s].op = "processSettlement" /\ call[s].pc = "awaitSettle"
  /\ \E a \in SettleAnswers(call[s].settleRequirements) :
       Advance(s, AfterSettle(call[s], a))

\* registerPaywallProvider
RegisterPaywallProvider ==
  /\ paywallProvider = Undefined
  /\ paywallProvider' = "provider"
  /\ UNCHANGED <<call, verified, settleLog, startup, probe>>

Next ==
  \/ \E s \in DOMAIN call : ProcessHTTPRequest(s)
  \/ \E s \in DOMAIN call : BuildSettles(s)
  \/ \E s \in DOMAIN call : UnpaidSettles(s)
  \/ \E s \in DOMAIN call : VerifySettles(s)
  \/ \E s \in DOMAIN call : ProcessSettlement(s)
  \/ \E s \in DOMAIN call : SettleSettles(s)
  \/ RegisterPaywallProvider

Spec == Init /\ [][Next]_vars

\* ------------------------------------------------------------------------
\* initialize, validateRouteConfiguration, requiresPayment
\* ------------------------------------------------------------------------
\* the (network, scheme) pairs of the route table's payment options
Kinds == {<<"eip155:8453", "exact">>, <<"solana:mainnet", "exact">>}

\* the authority after its initialize(): the pairs with a registered scheme
\* implementation, and the pairs the facilitator supports
Registries ==
  {[registered |-> r, supported |-> f, asked |-> TRUE] :
     r \in SUBSET Kinds, f \in SUBSET Kinds}

\* await this.ResourceServer.initialize(): it resolves, leaving the
\* authority in one of the Registries, or it rejects
InitializeAnswers ==
  {[throws |-> FALSE, thrown |-> NothingThrown, registry |-> g] : g \in Registries}
  \cup {[throws |-> TRUE, thrown |-> Thrown(TRUE, "facilitator unreachable"),
          registry |-> NoRegistry]}

RouteValidationError(pattern, option, reason) ==
  [routePattern |-> pattern, scheme |-> option.scheme,
   network |-> option.network, reason |-> reason]

\* validateRouteConfiguration reporting only the first offending option
validateRouteConfiguration_FirstOnly(registry) ==
  LET Bad(o) == <<o.network, o.scheme>> \notin (registry.registered \cap registry.supported)
      bad == {i \in 1..Len(RoutesConfig) :
                \E j \in 1..Len(normalizePaymentOptions(RoutesConfig[i].config)) :
                  Bad(normalizePaymentOptions(RoutesConfig[i].config)[j])}
  IN  IF bad = {} THEN <<>>
      ELSE LET i == CHOOSE x \in bad : \A y \in bad : x <= y
               options == normalizePaymentOptions(RoutesConfig[i].config)
               j == CHOOSE x \in 1..Len(options) :
                      Bad(options[x]) /\ \A y \in 1..(x-1) : ~Bad(options[y])
           IN  <<RouteValidationError(RoutesConfig[i].pattern, options[j],
                   IF <<options[j].network, options[j].scheme>> \notin registry.registered
                   THEN "missing_scheme" ELSE "missing_facilitator")>>

\* ValidateOptions leaving a route's loop at its first offending option
ValidateOptions_StopsAtFirst(pattern, options, registry) ==
  LET Reason(o) == IF <<o.network, o.scheme>> \notin registry.registered
                   THEN "missing_scheme"
                   ELSE IF <<o.network, o.scheme>> \notin registry.supported
                   THEN "missing_facilitator" ELSE "none"
      bad == {j \in 1..Len(options) : Reason(options[j]) # "none"}
  IN  IF bad = {} THEN <<>>
      ELSE LET j == CHOOSE x \in bad : \A y \in bad : x <= y
           IN  <<RouteValidationError(pattern, options[j], Reason(options[j]))>>

RECURSIVE ValidateOptions(_, _, _)
\* lines 548-578: the inner loop over one route's options
ValidateOptions(pattern, options, registry) ==
  IF options = <<>> THEN <<>>
  ELSE LET option == Head(options)
           kind == <<option.network, option.scheme>>
           rest == ValidateOptions(pattern, Tail(options), registry)
       IN  IF kind \notin registry.registered
           THEN <<RouteValidationError(pattern, option, "missing_scheme")>> \o rest
           ELSE IF kind \notin registry.supported
           THEN <<RouteValidationError(pattern, option, "missing_facilitator")>> \o rest
           ELSE rest

RECURSIVE ValidateRoutes(_, _)
\* lines 545-579: the outer loop over the routes
ValidateRoutes(routes, registry) ==
  IF routes = <<>> THEN <<>>
  ELSE ValidateOptions(Head(routes).pattern,
                       normalizePaymentOptions(Head(routes).config), registry)
         \o ValidateRoutes(Tail(routes), registry)

validateRouteConfiguration(registry) == ValidateRoutes(RoutesConfig, registry)

\* throw new RouteConfigurationError(errors)
RouteConfigurationError == Thrown(TRUE, "x402 Route Configuration Errors")

\* lines 307-313: from the answer of ResourceServer.initialize() to the end
AfterInitialize(c, a) ==
  IF a.throws THEN Raised(c, a.thrown)
  ELSE LET errors == validateRouteConfiguration(a.registry)
           c1 == [c EXCEPT !.registry = a.registry, !.errors = errors]
       IN  IF Len(errors) > 0 THEN Raised(c1, RouteConfigurationError)
           ELSE [c1 EXCEPT !.pc = "returned"]

\* initialize(), to the await of ResourceServer.initialize()
Initialize(s) ==
  /\ Available(s)
  /\ call' = [call EXCEPT ![s] = [IdleCall EXCEPT !.op = "initialize",
                                                   !.pc = "awaitInitialize"]]
  /\ startup' = "initializing"
  /\ UNCHANGED <<paywallProvider, verified, settleLog, probe>>

InitializeSettles(s) ==
  /\ call[s].op = "initialize" /\ call[s].pc = "awaitInitialize"
  /\ \E a \in InitializeAnswers :
       /\ call' = [call EXCEPT ![s] = AfterInitialize(call[s], a)]
       /\ startup' = IF AfterInitialize(call[s], a).pc = "returned"
                     THEN "initialized" ELSE "failed"
  /\ UNCHANGED <<paywallProvider, verified, settleLog, probe>>

\* requiresPayment deciding by the path alone, as if every request were a GET
requiresPayment_PathOnly(path, method) ==
  [IdleCall EXCEPT !.op = "requiresPayment", !.pc = "returned",
                   !.path = path, !.method = method,
                   !.route = RouteLookup[path, <<"g","e","t">>],
                   !.requires = RouteLookup[path, <<"g","e","t">>] # NoRoute]

\* requiresPayment(context)
requiresPayment(path, method) ==
  [IdleCall EXCEPT !.op = "requiresPayment", !.pc = "returned",
                   !.path = path, !.method = method,
                   !.route = RouteLookup[path, method],
                   !.requires = RouteLookup[path, method] # NoRoute]

RequiresPayment(s) ==
  /\ Available(s)
  /\ \E path \in Paths, method \in Methods :
       call' = [call EXCEPT ![s] = requiresPayment(path, method)]
  /\ UNCHANGED <<paywallProvider, verified, settleLog, startup, probe>>

\* getRouteConfig(path, method) !== undefined on the server constructed with
\* the route table { [pattern]: config }
GatesOnly(pattern, path, method) ==
  RouteAccepts(parseRoutePattern(pattern), normalizePath(path), toUpperCase(method))

InitRouting ==
  /\ call = [s \in Slots |-> IdleCall]
  /\ paywallProvider = Undefined
  /\ verified = {}
  /\ settleLog = <<>>
  /\ startup = "constructed"
  /\ probe \in {Probe(pattern, path, method, FALSE, FALSE) :
                  pattern \in ProbePatterns, path \in ProbePaths,
                  method \in ProbeMethods}

MatchRoute ==
  /\ ~probe.applied
  /\ probe' = [probe EXCEPT !.applied = TRUE,
                            !.gates = GatesOnly(probe.pattern, probe.path, probe.method)]
  /\ UNCHANGED <<call, paywallProvider, verified, settleLog, startup>>

NextRouting == MatchRoute

SpecRouting == InitRouting /\ [][NextRouting]_vars

\* the server from its construction on: initialize and the request entry
\* points, in whatever order the host calls them
NextStartup ==
  \/ \E s \in DOMAIN call : Initialize(s)
  \/ \E s \in DOMAIN call : InitializeSettles(s)
  \/ \E s \in DOMAIN call : RequiresPayment(s)
  \/ \E s \in DOMAIN call : ProcessHTTPRequest(s)
  \/ \E s \in DOMAIN call : BuildSettles(s)
  \/ \E s \in DOMAIN call : UnpaidSettles(s)
  \/ \E s \in DOMAIN call : VerifySettles(s)
  \/ RegisterPaywallProvider

SpecStartup == Init /\ [][NextStartup]_vars

\* ------------------------------------------------------------------------
\* Properties
\* ------------------------------------------------------------------------
Invoked(c, fn) == \E i \in DOMAIN c.trace : c.trace[i].fn = fn
Answer(c, fn, outcome) ==
  \E i \in DOMAIN c.trace : c.trace[i].fn = fn /\ c.trace[i].outcome = outcome
Finished(c) == c.pc \in {"returned", "raised"}
Gated(c) == c.op = "processHTTPRequest" /\ c.route # NoRoute

\* the header the code goes by: the lower-case spelling if truthy, else the other
EffectiveHeader(answer) ==
  IF answer.lower # Undefined /\ answer.lower # "" THEN answer.lower ELSE answer.upper
HeaderMissing(answer) == EffectiveHeader(answer) \in {Undefined, ""}
HeaderUndecodable(answer) == ~HeaderMissing(answer) /\ DecodeThrows(EffectiveHeader(answer))

\* the descriptor a structured 402 response carries in PAYMENT-REQUIRED
DescriptorOf(response) ==
  decodePaymentRequiredHeader(response.headers["PAYMENT-REQUIRED"])
Structured402(result) ==
  /\ result.type = "payment-error"
  /\ result.response.status = 402
  /\ "PAYMENT-REQUIRED" \in DOMAIN result.response.headers

\* C1: a processHTTPRequest call on a gated route never ends by raising,
\* whichever collaborator call fails.
C1_NeverRaises ==
  \A s \in DOMAIN call : Gated(call[s]) => call[s].pc # "raised"

\* C2: payment-verified is returned only after findMatchingRequirements
\* returned a requirement R for the decoded proof and verifyPayment(proof, R)
\* answered valid; the result carries that proof and that R; verifyPayment is
\* only ever invoked with a requirement findMatchingRequirements returned.
C2_VerifiedOnlyAfterMatchAndValid ==
  \A s \in DOMAIN call :
    LET c == call[s] IN
    c.op = "processHTTPRequest" =>
      /\ (c.result.type = "payment-verified" =>
            /\ c.pc = "returned"
            /\ ~HeaderMissing(c.header) /\ ~HeaderUndecodable(c.header)
            /\ c.result.paymentPayload = decodePaymentSignatureHeader(EffectiveHeader(c.header))
            /\ c.result.paymentRequirements # NoRequirement
            /\ \E i, j \in DOMAIN c.trace :
                 /\ i < j
                 /\ c.trace[i] = Invocation("findMatchingRequirements",
                                            c.result.paymentPayload,
                                            c.result.paymentRequirements, "returned")
                 /\ c.trace[j] = Invocation("verifyPayment", c.result.paymentPayload,
                                            c.result.paymentRequirements, "valid"))
      /\ \A j \in DOMAIN c.trace :
           c.trace[j].fn = "verifyPayment" =>
             /\ c.trace[j].requirements # NoRequirement
             /\ \E i \in 1..(j-1) :
                  c.trace[i] = Invocation("findMatchingRequirements", c.trace[j].payload,
                                          c.trace[j].requirements, "returned")
      /\ Len(SelectFn(c.trace, "verifyPayment")) <= 1

C2_Witness ==
  \E s \in DOMAIN call :
    /\ call[s].op = "processHTTPRequest" /\ call[s].pc = "returned"
    /\ call[s].result.type = "payment-verified"
    /\ call[s].result.paymentRequirements = Requirement(OptB)

\* C3 as claimed: every pair settlePayment was invoked with had been returned
\* as payment-verified by a processHTTPRequest call.
C3_SettleOnlyVerified ==
  \A i \in DOMAIN settleLog : settleLog[i] \in verified

\* C3 as amended: settlePayment is invoked only in the step that starts a
\* processSettlement call, once, with exactly the pair that call was given.
C3_SettleForwardsArguments ==
  [][settleLog' # settleLog =>
       \E s \in DOMAIN call :
         /\ call[s].pc \in {"idle", "returned", "raised"}
         /\ call'[s].op = "processSettlement" /\ call'[s].pc = "awaitSettle"
         /\ settleLog' = Append(settleLog, <<call'[s].settlePayload,
                                            call'[s].settleRequirements>>)]_vars

C3_Witness ==
  \E s \in DOMAIN call :
    /\ call[s].op = "processSettlement" /\ call[s].pc = "returned"
    /\ call[s].settleResult.success
    /\ <<call[s].settlePayload, call[s].settleRequirements>> \notin verified
    /\ settleLog # <<>>
    /\ settleLog[Len(settleLog)] = <<call[s].settlePayload, call[s].settleRequirements>>

\* C4 as claimed: settlePayment is invoked at most once for a verified proof.
C4_AtMostOneSettlePerProof ==
  \A i, j \in DOMAIN settleLog :
    (/\ settleLog[i][1] = settleLog[j][1]
     /\ \E v \in verified : v[1] = settleLog[i][1]) => i = j

\* C4 as amended: one processSettlement call invokes settlePayment exactly
\* once, whatever the answer (a failed settle is not retried).
C4_OneSettlePerCall ==
  \A s \in DOMAIN call :
    call[s].op = "processSettlement" =>
      /\ Len(SelectFn(call[s].trace, "settlePayment")) = 1
      /\ Len(call[s].trace) = 1

C4_Witness ==
  \E s \in DOMAIN call :
    /\ call[s].op = "processSettlement" /\ call[s].pc = "returned"
    /\ ~call[s].settleResult.success
    /\ Len(settleLog) = 2
    /\ settleLog[1] = settleLog[2]
    /\ settleLog[1] \in verified

\* C5: no processHTTPRequest call invokes settlePayment, on any path.
C5_RequestNeverSettles ==
  \A s \in DOMAIN call :
    call[s].op = "processHTTPRequest" => ~Invoked(call[s], "settlePayment")

C5_Witness ==
  \E s \in DOMAIN call :
    /\ call[s].op = "processHTTPRequest" /\ call[s].pc = "returned"
    /\ call[s].result.type = "payment-verified"
    /\ settleLog = <<>>

\* C6: processSettlement never raises; when settlePayment reports a failure
\* or throws, the call returns success = false with an errorReason.
C6_SettlementNeverRaises ==
  \A s \in DOMAIN call :
    LET c == call[s] IN
    c.op = "processSettlement" =>
      /\ c.pc # "raised"
      /\ c.pc \in {"awaitSettle", "returned"}
      /\ (Answer(c, "settlePayment", "failure") \/ Answer(c, "settlePayment", "threw")) =>
           /\ c.pc = "returned"
           /\ c.settleResult.success = FALSE
           /\ c.settleResult.errorReason # Undefined

C6_Witness ==
  \E s \in DOMAIN call :
    /\ call[s].op = "processSettlement" /\ call[s].pc = "returned"
    /\ Answer(call[s], "settlePayment", "threw")
    /\ call[s].settleResult.errorReason = "Settlement failed"

OutcomesOf(path, method, ha, provider) ==
  LET c0 == Enter(path, method, ha)
  IN  IF c0.pc # "awaitBuild" THEN {c0}
      ELSE
      LET rc == routeConfigOf(c0)
          AfterB == { AfterBuild(c0, b, e, f, r.accept, r.userAgent, provider, r.html) :
                        b \in BuildAnswers(normalizePaymentOptions(rc)),
                        e \in EnrichAnswers(rc.extensions),
                        f \in FindAnswers([i \in 1..Len(normalizePaymentOptions(rc)) |->
                                             Requirement(normalizePaymentOptions(rc)[i])]),
                        r \in RenderAnswers(TRUE) }
      IN  UNION { IF c1.pc = "awaitUnpaid"
                  THEN { AfterUnpaid(c1, u, r.accept, r.userAgent, provider, r.html) :
                           u \in UnpaidAnswers, r \in RenderAnswers(TRUE) }
                  ELSE IF c1.pc = "awaitVerify"
                  THEN { AfterVerify(c1, v) : v \in VerifyAnswers }
                  ELSE {c1} : c1 \in AfterB }

AbsentHeader == [lower |-> Undefined, upper |-> Undefined]
GarbageHeader == [lower |-> "garbage", upper |-> Undefined]

OutcomeTable ==
  [path \in Paths, method \in Methods, ha \in {AbsentHeader, GarbageHeader},
   provider \in {Undefined, "provider"} |-> OutcomesOf(path, method, ha, provider)]

\* C8: a request whose payment-signature header fails to decode ends exactly
\* as the same request without the header can end (same result or same throw,
\* same collaborator calls), and conversely; its descriptor has the reason
\* "Payment required"; no payload reaches verification.
C8_UndecodableAsAbsent ==
  \A s \in DOMAIN call :
    LET c == call[s] IN
    (Gated(c) /\ Finished(c)) =>
      /\ HeaderUndecodable(c.header) =>
           /\ c.header = GarbageHeader
           /\ c.paymentPayload = Null
           /\ \E p \in {Undefined, paywallProvider} :
                [c EXCEPT !.header = AbsentHeader]
                  \in OutcomeTable[c.path, c.method, AbsentHeader, p]
           /\ c.paymentRequired # NoDescriptor =>
                c.paymentRequired.error = "Payment required"
      /\ c.header = AbsentHeader =>
           \E p \in {Undefined, paywallProvider} :
             [c EXCEPT !.header = GarbageHeader]
               \in OutcomeTable[c.path, c.method, GarbageHeader, p]

C8_Witness ==
  \E s \in DOMAIN call :
    /\ Gated(call[s]) /\ call[s].header = GarbageHeader
    /\ call[s].pc = "returned" /\ call[s].result.type = "payment-error"
    /\ call[s].result.response.isHtml

\* C9: when findMatchingRequirements returns no requirement, the call returns
\* payment-error 402 whose descriptor has the reason "No matching payment
\* requirements" and offers the requirement set built for this request;
\* verifyPayment is not called.
C9_NoMatchIsPaymentError ==
  \A s \in DOMAIN call :
    LET c == call[s] IN
    (c.op = "processHTTPRequest" /\ Answer(c, "findMatchingRequirements", "undefined")) =>
      /\ c.pc = "returned"
      /\ Structured402(c.result)
      /\ DescriptorOf(c.result.response).error = "No matching payment requirements"
      /\ DescriptorOf(c.result.response).accepts = c.requirements
      /\ c.requirements = c.paymentRequired.accepts
      /\ c.requirements # <<>>
      /\ ~Invoked(c, "verifyPayment")

C9_Witness ==
  \E s \in DOMAIN call :
    /\ call[s].op = "processHTTPRequest" /\ call[s].pc = "returned"
    /\ Answer(call[s], "findMatchingRequirements", "undefined")
    /\ Len(call[s].requirements) = 2

\* C10: when verifyPayment answers isValid = false, the call returns
\* payment-error 402 whose descriptor has the authority's invalidReason as
\* its reason and offers the requirement set built for this request.
C10_InvalidIsPaymentError ==
  \A s \in DOMAIN call :
    LET c == call[s] IN
    (c.op = "processHTTPRequest" /\ Answer(c, "verifyPayment", "invalid")) =>
      /\ c.pc = "returned"
      /\ Structured402(c.result)
      /\ DescriptorOf(c.result.response).error = c.verifyResult.invalidReason
      /\ DescriptorOf(c.result.response).accepts = c.requirements
      /\ c.requirements = c.paymentRequired.accepts
      /\ c.requirements # <<>>

C10_Witness ==
  \E s \in DOMAIN call :
    /\ call[s].op = "processHTTPRequest" /\ call[s].pc = "returned"
    /\ Answer(call[s], "verifyPayment", "invalid")
    /\ DescriptorOf(call[s].result.response).error = "insufficient_funds"

\* C11: when findMatchingRequirements or verifyPayment throws, the call
\* returns payment-error with status 402 and is not raised; the descriptor's
\* reason is the message of the thrown Error (for a thrown value that is no
\* Error, which has no message, it is "Payment verification failed"), and
\* the full requirement set is offered again.
C11_ThrownIsPaymentError ==
  \A s \in DOMAIN call :
    LET c == call[s] IN
    (c.op = "processHTTPRequest"
       /\ (Answer(c, "findMatchingRequirements", "threw")
             \/ Answer(c, "verifyPayment", "threw"))) =>
      /\ c.pc = "returned"
      /\ c.thrown = NothingThrown
      /\ c.caught # NothingCaught
      /\ Structured402(c.result)
      /\ c.caught.isError =>
            DescriptorOf(c.result.response).error = c.caught.message
      /\ ~c.caught.isError =>
            DescriptorOf(c.result.response).error = "Payment verification failed"
      /\ DescriptorOf(c.result.response).accepts = c.requirements

C11_Witness ==
  \E s \in DOMAIN call :
    /\ call[s].op = "processHTTPRequest" /\ call[s].pc = "returned"
    /\ Answer(call[s], "verifyPayment", "threw")
    /\ call[s].caught.isError
    /\ DescriptorOf(call[s].result.response).error = "facilitator unreachable"

\* C12: a request is served (by processHTTPRequest or requiresPayment) only
\* on a server whose initialize has completed without raising.
C12_NoRequestBeforeInitialize ==
  \A s \in DOMAIN call :
    call[s].op \in {"processHTTPRequest", "requiresPayment"} =>
      startup = "initialized"

\* the (route, option) positions whose option lacks a registered scheme or
\* facilitator support, and their rank in route-then-option order
Violations(registry) ==
  {v \in (1..Len(RoutesConfig)) \X (1..2) :
     /\ v[2] <= Len(normalizePaymentOptions(RoutesConfig[v[1]].config))
     /\ LET o == normalizePaymentOptions(RoutesConfig[v[1]].config)[v[2]]
        IN  <<o.network, o.scheme>> \notin (registry.registered \cap registry.supported)}
Rank(v, registry) ==
  1 + Cardinality({w \in Violations(registry) :
                     w[1] < v[1] \/ (w[1] = v[1] /\ w[2] < v[2])})

Accepting ==
  [path \in Paths, method \in Methods |->
     {i \in 1..Len(RoutesConfig) :
        RouteAccepts(parseRoutePattern(RoutesConfig[i].pattern),
                     normalizePath(path), toUpperCase(method))}]

\* C14: a request that some route accepts is processed under the config of
\* the earliest-declared accepting route: that is the route looked up, and
\* the requirements are built from that route's payment options.
C14_FirstMatchWins ==
  \A s \in DOMAIN call :
    LET c == call[s]
        acc == Accepting[c.path, c.method]
    IN  (c.op = "processHTTPRequest" /\ acc # {}) =>
          /\ c.route \in acc
          /\ \A j \in acc : c.route <= j
          /\ Answer(c, "buildPaymentRequirementsFromOptions", "returned") =>
                c.requirements =
                  [k \in 1..Len(normalizePaymentOptions(RoutesConfig[c.route].config)) |->
                     Requirement(normalizePaymentOptions(RoutesConfig[c.route].config)[k])]

C14_Witness ==
  \E s \in DOMAIN call :
    /\ call[s].op = "processHTTPRequest"
    /\ Accepting[call[s].path, call[s].method] = {1, 2}
    /\ call[s].route = 1
    /\ Len(call[s].requirements) = 2

\* C15: a request that no route accepts returns no-payment-required, and
\* neither the payment header nor any other adapter value is read, nor is
\* any authority operation or route callback invoked.
C15_UngatedPassesThrough ==
  \A s \in DOMAIN call :
    LET c == call[s] IN
    (c.op = "processHTTPRequest" /\ Accepting[c.path, c.method] = {}) =>
      /\ c.pc = "returned"
      /\ c.result = HTTPProcessResult("no-payment-required", Null,
                                      NoRequirement, NoResponse)
      /\ c.header = HeaderUnread
      /\ c.accept = Unread /\ c.userAgent = Unread
      /\ c.trace = <<>>

C15_Witness ==
  \E s \in DOMAIN call :
    /\ call[s].op = "processHTTPRequest" /\ call[s].pc = "returned"
    /\ Accepting[call[s].path, call[s].method] = {}
    /\ call[s].result.type = "no-payment-required"

\* the verb a pattern declares (the text before its blank), if it has one
HasVerb(pattern) == \E i \in 1..Len(pattern) : pattern[i] = " "
DeclaredVerb(pattern) == SubSeq(pattern, 1, FirstIndexIn(pattern, {" "}) - 1)
PathPattern(pattern) ==
  IF HasVerb(pattern)
  THEN SubSeq(pattern, FirstIndexIn(pattern, {" "}) + 1, Len(pattern))
  ELSE pattern

\* C16: a route with a verb gates a request iff its path pattern accepts the
\* path and the method equals the verb ignoring letter case; a route without
\* a verb gates iff its path pattern accepts the path, whatever the method.
\* "GET /api/*" gates GET /api/anything/nested and not POST /api/anything.
C16_VerbMatching ==
  probe.applied =>
    /\ probe.gates =
         (/\ RegexTest(CompilePath(PathPattern(probe.pattern)),
                       normalizePath(probe.path))
          /\ (HasVerb(probe.pattern) =>
                toUpperCase(DeclaredVerb(probe.pattern)) = toUpperCase(probe.method)))
    /\ (probe.pattern = <<"G","E","T"," ","/","a","p","i","/","*">> /\ probe.path = <<"/","a","p","i","/","a","n","y","t","h","i","n","g","/","n","e","s","t","e","d">>
          /\ probe.method = <<"G","E","T">>) => probe.gates
    /\ (probe.pattern = <<"G","E","T"," ","/","a","p","i","/","*">> /\ probe.path = <<"/","a","p","i","/","a","n","y","t","h","i","n","g">>
          /\ probe.method = <<"P","O","S","T">>) => ~probe.gates

C16_Witness ==
  /\ probe.applied /\ probe.gates
  /\ probe.pattern = <<"G","E","T"," ","/","a","p","i","/","*">>
  /\ probe.path = <<"/","a","p","i","/","a","n","y","t","h","i","n","g","/","n","e","s","t","e","d">>
  /\ probe.method = <<"g","e","t">>

RECURSIVE ClaimedMatch(_, _)
\* the pattern semantics as stated: "*" any run of characters, "[name]" one
\* or more characters other than "/", the whole path matched
ClaimedMatch(toks, s) ==
  IF toks = <<>> THEN s = <<>>
  ELSE IF toks[1] = AnyRun
       THEN \E k \in 0..Len(s) : ClaimedMatch(Tail(toks), SubSeq(s, k + 1, Len(s)))
  ELSE IF toks[1] = Segment
       THEN \E k \in 1..Len(s) :
              /\ \A i \in 1..k : s[i] # "/"
              /\ ClaimedMatch(Tail(toks), SubSeq(s, k + 1, Len(s)))
  ELSE /\ s # <<>>
       /\ SameCharIgnoringCase(toks[1], s[1])
       /\ ClaimedMatch(Tail(toks), Tail(s))

\* C17: a route without a verb gates a request exactly when its pattern,
\* with "[name]" as one or more non-separator characters and "*" as any run
\* of characters, matches the whole normalized path.
C17_PatternSemantics ==
  (probe.applied /\ ~HasVerb(probe.pattern)) =>
    probe.gates = ClaimedMatch(CompilePath(probe.pattern), normalizePath(probe.path))

\* a returned payment-error result
PaymentError(c) ==
  c.op = "processHTTPRequest" /\ c.pc = "returned" /\ c.result.type = "payment-error"
\* the browser classification of the adapter's answers, as stated
ClassifiedBrowser(accept, userAgent) ==
  (\E i \in 1..Len(accept) : accept[i] = "text/html")
    /\ (\E i \in 1..Len(userAgent) : userAgent[i] = "Mozilla")
\* the HTML paywall response
HtmlPaywall(response) ==
  /\ response.status = 402 /\ response.isHtml
  /\ response.headers = ("Content-Type" :> "text/html")

\* C18 as stated: every payment-error response is the HTML paywall exactly
\* when its request classifies as a browser.  Where the adapter was not
\* asked, the response is the same for every Accept and User-Agent the
\* request may have.
C18_FollowsClassification ==
  \A s \in DOMAIN call :
    LET c == call[s] IN
    PaymentError(c) =>
      \A a \in (IF c.accept = Unread THEN AcceptAnswers ELSE {c.accept}),
         u \in (IF c.userAgent = Unread THEN UserAgentAnswers ELSE {c.userAgent}) :
        /\ ClassifiedBrowser(a, u) => HtmlPaywall(c.result.response)
        /\ ~ClassifiedBrowser(a, u) =>
             (Structured402(c.result) /\ ~c.result.response.isHtml)

\* C18 (amended): the payment-error response of a request without a decoded
\* proof is the HTML paywall exactly when Accept contains text/html and
\* User-Agent contains "Mozilla", and the structured response otherwise;
\* the payment-error response of a request that carried a proof is the
\* structured response, and the classification is not even read.
C18_UnpaidFollowsClassification ==
  \A s \in DOMAIN call :
    LET c == call[s] IN
    PaymentError(c) =>
      /\ c.paymentPayload = Null =>
           /\ c.accept \in AcceptAnswers /\ c.userAgent \in UserAgentAnswers
           /\ ClassifiedBrowser(c.accept, c.userAgent) =>
                HtmlPaywall(c.result.response)
           /\ ~ClassifiedBrowser(c.accept, c.userAgent) =>
                (Structured402(c.result) /\ ~c.result.response.isHtml)
      /\ c.paymentPayload # Null =>
           /\ c.accept = Unread /\ c.userAgent = Unread
           /\ Structured402(c.result) /\ ~c.result.response.isHtml

C18_Witness ==
  \E s \in DOMAIN call :
    /\ PaymentError(call[s])
    /\ ClassifiedBrowser(call[s].accept, call[s].userAgent)
    /\ HtmlPaywall(call[s].result.response)

\* the route supplies custom paywall HTML
HasCustomHtml(c) ==
  routeConfigOf(c).customPaywallHtml \notin {Undefined, ""}

\* C19 as stated: custom HTML verbatim, else the registered provider's
\* output, else the built-in fallback page embedding the descriptor.
C19_ThreeTierPriority ==
  \A s \in DOMAIN call :
    LET c == call[s] IN
    (PaymentError(c) /\ c.result.response.isHtml) =>
      LET body == c.result.response.body IN
      /\ HasCustomHtml(c) =>
           /\ body.kind = "customHtml"
           /\ body.text = routeConfigOf(c).customPaywallHtml
           /\ ~Invoked(c, "paywallProvider.generateHtml")
      /\ (~HasCustomHtml(c) /\ c.provider # Undefined) =>
           /\ body.kind = "providerHtml"
           /\ Answer(c, "paywallProvider.generateHtml", "returned")
      /\ (~HasCustomHtml(c) /\ c.provider = Undefined) =>
           /\ body.kind = "fallbackHtml"
           /\ body.embeds = c.paymentRequired

\* C19 (amended): custom HTML verbatim, and then no renderer is asked; else
\* the registered provider's output; else the page of the optional package
\* @x402/paywall when it loads and renders; else the built-in fallback
\* page, which embeds the descriptor.
C19_PaywallPriority ==
  \A s \in DOMAIN call :
    LET c == call[s] IN
    (PaymentError(c) /\ c.result.response.isHtml) =>
      LET body == c.result.response.body IN
      /\ HasCustomHtml(c) =>
           /\ body.kind = "customHtml"
           /\ body.text = routeConfigOf(c).customPaywallHtml
           /\ ~Invoked(c, "paywallProvider.generateHtml")
           /\ ~Invoked(c, "paywall.getPaywallHtml")
           /\ c.provider = "<unread>"
      /\ (~HasCustomHtml(c) /\ c.provider # Undefined) =>
           /\ body.kind = "providerHtml"
           /\ body.text = c.provider
           /\ Answer(c, "paywallProvider.generateHtml", "returned")
           /\ ~Invoked(c, "paywall.getPaywallHtml")
      /\ (~HasCustomHtml(c) /\ c.provider = Undefined) =>
           /\ ~Invoked(c, "paywallProvider.generateHtml")
           /\ Answer(c, "paywall.getPaywallHtml", "returned") =>
                body.kind = "packageHtml"
           /\ ~Answer(c, "paywall.getPaywallHtml", "returned") =>
                /\ Answer(c, "paywall.getPaywallHtml", "threw")
                /\ body.kind = "fallbackHtml"
                /\ body.embeds = c.paymentRequired

C19_Witness ==
  \E s \in DOMAIN call :
    /\ PaymentError(call[s]) /\ call[s].result.response.isHtml
    /\ HasCustomHtml(call[s])
    /\ paywallProvider # Undefined
    /\ call[s].result.response.body.text = "<custom/>"

\* the non-browser payment-error response carries the descriptor with the
\* requirement set built for the request
CarriesRequirements(c) ==
  /\ Structured402(c.result)
  /\ DescriptorOf(c.result.response).accepts = c.requirements
  /\ c.requirements # <<>>

\* C20 as stated: every non-browser 402 of a route with an unpaid-response
\* generator has the generator's content type and body, and of a route
\* without one application/json and {}; all carry the descriptor.
C20_NonBrowserBodyFromGenerator ==
  \A s \in DOMAIN call :
    LET c == call[s] IN
    (PaymentError(c) /\ ~c.result.response.isHtml) =>
      LET response == c.result.response IN
      /\ routeConfigOf(c).unpaidResponseBody =>
           /\ Answer(c, "unpaidResponseBody", "returned")
           /\ response.headers["Content-Type"] = c.unpaidBody.contentType
           /\ response.body = Body("unpaid", c.unpaidBody.body, NoDescriptor)
      /\ ~routeConfigOf(c).unpaidResponseBody =>
           /\ response.headers["Content-Type"] = "application/json"
           /\ response.body = Body("emptyObject", "{}", NoDescriptor)
      /\ CarriesRequirements(c)

\* C20 (amended): the non-browser 402 of a request without a decoded proof
\* has the content type and body the route's generator returned for it, or
\* application/json and {} when the route has no generator; the 402 of a
\* request that carried a proof has application/json and {} and the
\* generator is not invoked; all carry the descriptor.
C20_UnpaidBodyFromGenerator ==
  \A s \in DOMAIN call :
    LET c == call[s] IN
    (PaymentError(c) /\ ~c.result.response.isHtml) =>
      LET response == c.result.response IN
      /\ (c.paymentPayload = Null /\ routeConfigOf(c).unpaidResponseBody) =>
           /\ Answer(c, "unpaidResponseBody", "returned")
           /\ c.unpaidBody # NoUnpaidResponse
           /\ response.headers["Content-Type"] = c.unpaidBody.contentType
           /\ response.body = Body("unpaid", c.unpaidBody.body, NoDescriptor)
      /\ (c.paymentPayload # Null \/ ~routeConfigOf(c).unpaidResponseBody) =>
           /\ ~Invoked(c, "unpaidResponseBody")
           /\ response.headers["Content-Type"] = "application/json"
           /\ response.body = Body("emptyObject", "{}", NoDescriptor)
      /\ CarriesRequirements(c)

C20_Witness ==
  \E s \in DOMAIN call :
    /\ PaymentError(call[s]) /\ ~call[s].result.response.isHtml
    /\ Answer(call[s], "unpaidResponseBody", "returned")
    /\ call[s].result.response.headers["Content-Type"] = "text/plain"
    /\ call[s].result.response.body.text = "preview"

\* a processSettlement call that has returned
Settlement(c) == c.op = "processSettlement" /\ c.pc = "returned"

\* C21: when settlePayment reports success, processSettlement returns
\* success = true with the authority's payer, transaction and network, the
\* requirement it was called with, and exactly one header, PAYMENT-RESPONSE,
\* which encodes the authority's settlement data and that requirement; a
\* result with success = false has no headers.
C21_SuccessCarriesReceipt ==
  \A s \in DOMAIN call :
    LET c == call[s]
        r == c.settleResult
    IN  Settlement(c) =>
          /\ (c.settleAnswer.throws = "no" /\ c.settleAnswer.value.success) =>
               /\ r.success
               /\ r.payer = c.settleAnswer.value.payer
               /\ r.transaction = c.settleAnswer.value.transaction
               /\ r.network = c.settleAnswer.value.network
               /\ r.requirements = c.settleRequirements
               /\ DOMAIN r.headers = {"PAYMENT-RESPONSE"}
               /\ r.headers["PAYMENT-RESPONSE"].of = c.settleAnswer.value
               /\ r.headers["PAYMENT-RESPONSE"].requirements = c.settleRequirements
          /\ ~r.success => "headers" \notin DOMAIN r
          /\ r.success => (c.settleAnswer.throws = "no" /\ c.settleAnswer.value.success)

C21_Witness ==
  \E s \in DOMAIN call :
    /\ Settlement(call[s]) /\ call[s].settleResult.success
    /\ call[s].settleRequirements = Requirement(OptC)
    /\ call[s].settleResult.headers["PAYMENT-RESPONSE"].requirements = Requirement(OptC)

\* C29: when settlePayment throws a SettleError, the failure result has the
\* error's reason (its message if it has no reason), payer, network and
\* transaction; when it throws anything else, the result has the thrown
\* Error's message (or "Settlement failed" for a value that is no Error),
\* the network of the requirement passed in, and an empty transaction.
C29_ThrownSettlementFields ==
  \A s \in DOMAIN call :
    LET c == call[s]
        r == c.settleResult
        a == c.settleAnswer
    IN  (Settlement(c) /\ a.throws \notin {"no", "pending"}) =>
          /\ ~r.success
          /\ a.throws = "SettleError" =>
               /\ r.errorReason = IF a.value.errorReason \in {Undefined, ""}
                                  THEN a.message ELSE a.value.errorReason
               /\ r.payer = a.value.payer
               /\ r.network = a.value.network
               /\ r.transaction = a.value.transaction
          /\ a.throws # "SettleError" =>
               /\ r.errorReason = IF a.throws = "Error" THEN a.message
                                  ELSE "Settlement failed"
               /\ r.network = c.settleRequirements.network
               /\ r.transaction = ""

C29_Witness ==
  \E s \in DOMAIN call :
    /\ Settlement(call[s])
    /\ call[s].settleAnswer.throws = "SettleError"
    /\ call[s].settleResult.errorReason = "transaction_reverted"
    /\ call[s].settleResult.network = "eip155:1"
    /\ call[s].settleRequirements.network # "eip155:1"

\* the Accept and User-Agent headers the request of c may carry: the ones the
\* adapter gave if it was asked, any otherwise
AcceptsOf(c) == IF c.accept = Unread THEN AcceptAnswers ELSE {c.accept}
UserAgentsOf(c) == IF c.userAgent = Unread THEN UserAgentAnswers ELSE {c.userAgent}

\* C22: a browser request without usable proof on a route with an
\* unpaid-response callback gets the paywall HTML, with nothing of the
\* callback's content type or body in it, and the callback's outcome (its
\* throwing) does not reach it: only a non-browser request is affected.
C22_BrowserUnaffectedByCallback ==
  \A s \in DOMAIN call :
    LET c == call[s] IN
    (Gated(c) /\ Finished(c) /\ Invoked(c, "unpaidResponseBody")) =>
      \A a \in AcceptsOf(c), u \in UserAgentsOf(c) :
        ClassifiedBrowser(a, u) =>
          /\ ~Answer(c, "unpaidResponseBody", "threw")
          /\ c.pc = "returned" =>
               /\ HtmlPaywall(c.result.response)
               /\ c.result.response.body.kind # "unpaid"

\* ------------------------------------------------------------------------
\* normalizePath on its own: every path of up to MaxPathLen characters
\* ------------------------------------------------------------------------
MaxPathLen == 4
\* the characters normalizePath treats specially, the digits of the escapes
\* "%22" "%23" "%32" "%33", and a plain letter that is no hex digit
PathChars == {"/", "\\", "?", "#", "%", "2", "3", "x"}
PathInputs == UNION {[1..n -> PathChars] : n \in 0..MaxPathLen}

\* a path, how often normalizePath was applied to it, and the results
PathProbe(path, applied, once, twice) ==
  [path |-> path, applied |-> applied, once |-> once, twice |-> twice]

InitPaths ==
  /\ call = [s \in Slots |-> IdleCall]
  /\ paywallProvider = Undefined
  /\ verified = {}
  /\ settleLog = <<>>
  /\ startup = "constructed"
  /\ probe \in {PathProbe(path, 0, <<>>, <<>>) : path \in PathInputs}

\* normalizePath(path)
NormalizeOnce ==
  /\ probe.applied = 0
  /\ probe' = [probe EXCEPT !.applied = 1, !.once = normalizePath(probe.path)]
  /\ UNCHANGED <<call, paywallProvider, verified, settleLog, startup>>

\* normalizePath applied to its own result
NormalizeAgain ==
  /\ probe.applied = 1
  /\ probe' = [probe EXCEPT !.applied = 2, !.twice = normalizePath(probe.once)]
  /\ UNCHANGED <<call, paywallProvider, verified, settleLog, startup>>

NextPaths == NormalizeOnce \/ NormalizeAgain

SpecPaths == InitPaths /\ [][NextPaths]_vars

\* C23: normalizePath(normalizePath(p)) = normalizePath(p) for every path p.
C23_NormalizeIdempotent ==
  probe.applied = 2 => probe.twice = probe.once

\* s has two separators in a row
RepeatedSeparator(s) == \E i \in 1..(Len(s) - 1) : s[i] = "/" /\ s[i + 1] = "/"

\* C24: a normalized path has no query or fragment, no backslash, no
\* repeated separator, and no trailing separator unless it is the root "/".
C24_NormalizedShape ==
  probe.applied >= 1 =>
    LET n == probe.once IN
    /\ \A i \in 1..Len(n) : n[i] \notin {"?", "#", "\\"}
    /\ ~RepeatedSeparator(n)
    /\ (Len(n) > 0 /\ n[Len(n)] = "/") => n = <<"/">>

\* the errors initialize call c collected for option j of route i, by reason
ReportedFor(c, i, j, reason) ==
  LET o == normalizePaymentOptions(RoutesConfig[i].config)[j] IN
  {k \in 1..Len(c.errors) :
     /\ c.errors[k].routePattern = RoutesConfig[i].pattern
     /\ c.errors[k].scheme = o.scheme
     /\ c.errors[k].network = o.network
     /\ c.errors[k].reason = reason}
\* the (route, option) positions of the route table
OptionPositions ==
  {<<i, j>> \in (1..Len(RoutesConfig)) \X (1..2) :
     j <= Len(normalizePaymentOptions(RoutesConfig[i].config))}
Validated(c) == c.op = "initialize" /\ c.registry.asked /\ Finished(c)

\* C25 as stated: every option of every route gets both checks: one without
\* a registered scheme is reported with missing_scheme and one without
\* facilitator support is reported with missing_facilitator, so an option
\* lacking both is reported twice.
C25_BothChecksOnEveryOption ==
  \A s \in DOMAIN call :
    LET c == call[s] IN
    Validated(c) =>
      \A v \in OptionPositions :
        LET o == normalizePaymentOptions(RoutesConfig[v[1]].config)[v[2]]
            kind == <<o.network, o.scheme>>
        IN  /\ kind \notin c.registry.registered =>
                 ReportedFor(c, v[1], v[2], "missing_scheme") # {}
            /\ kind \notin c.registry.supported =>
                 ReportedFor(c, v[1], v[2], "missing_facilitator") # {}

\* C25 (amended): every option of every route is checked, whatever was found
\* for the options and routes before it: an option without a registered
\* scheme is reported once, with missing_scheme, and its facilitator support
\* is not looked at; an option with a registered scheme that the facilitator
\* does not support is reported once, with missing_facilitator; any other
\* option is not reported.
C25_EveryOptionChecked ==
  \A s \in DOMAIN call :
    LET c == call[s] IN
    Validated(c) =>
      \A v \in OptionPositions :
        LET o == normalizePaymentOptions(RoutesConfig[v[1]].config)[v[2]]
            kind == <<o.network, o.scheme>>
            scheme == ReportedFor(c, v[1], v[2], "missing_scheme")
            facilitator == ReportedFor(c, v[1], v[2], "missing_facilitator")
        IN  /\ kind \notin c.registry.registered =>
                 (Cardinality(scheme) = 1 /\ facilitator = {})
            /\ (kind \in c.registry.registered /\ kind \notin c.registry.supported) =>
                 (scheme = {} /\ Cardinality(facilitator) = 1)
            /\ (kind \in c.registry.registered /\ kind \in c.registry.supported) =>
                 (scheme = {} /\ facilitator = {})

\* an option lacking both is reported, and so is a later route's option
C25_Witness ==
  \E s \in DOMAIN call :
    LET c == call[s] IN
    /\ Validated(c) /\ c.pc = "raised"
    /\ <<"solana:mainnet", "exact">> \notin (c.registry.registered \cup c.registry.supported)
    /\ <<"eip155:8453", "exact">> \in c.registry.registered
    /\ ReportedFor(c, 1, 1, "missing_facilitator") # {}
    /\ ReportedFor(c, 1, 2, "missing_scheme") # {}
    /\ ReportedFor(c, 3, 1, "missing_facilitator") # {}

\* how many times call c invoked the collaborator function fn
Calls(c, fn) == Cardinality({i \in DOMAIN c.trace : c.trace[i].fn = fn})

\* C26: a processHTTPRequest call on a gated route calls
\* buildPaymentRequirementsFromOptions exactly once (so each request-dependent
\* payee or price function is resolved once), a call on an ungated route
\* never; the requirement set that call returned is the one in the descriptor
\* of every payment-error response, unpaid or error, and the one the matching
\* requirement is taken from.
C26_RequirementsResolvedOnce ==
  \A s \in DOMAIN call :
    LET c == call[s] IN
    c.op = "processHTTPRequest" =>
      /\ Calls(c, "buildPaymentRequirementsFromOptions") = IF Gated(c) THEN 1 ELSE 0
      /\ Gated(c) => c.trace[1].fn = "buildPaymentRequirementsFromOptions"
      /\ (c.pc = "returned" /\ c.result.type = "payment-error") =>
           /\ Answer(c, "buildPaymentRequirementsFromOptions", "returned")
           /\ ~c.result.response.isHtml =>
                DescriptorOf(c.result.response).accepts = c.requirements
           /\ c.result.response.isHtml =>
                c.result.response.body.embeds \in {NoDescriptor, c.paymentRequired}
           /\ c.paymentRequired.accepts = c.requirements
      /\ c.matchingRequirements # NoRequirement =>
           \E i \in 1..Len(c.requirements) : c.requirements[i] = c.matchingRequirements

\* an error descriptor of the two-option route with a request-dependent option
C26_Witness ==
  \E s \in DOMAIN call :
    LET c == call[s] IN
    /\ c.op = "processHTTPRequest" /\ c.pc = "returned"
    /\ c.result.type = "payment-error" /\ c.paymentPayload # Null
    /\ Answer(c, "verifyPayment", "invalid")
    /\ Calls(c, "buildPaymentRequirementsFromOptions") = 1
    /\ Len(c.requirements) = 2
    /\ \E i \in 1..2 : normalizePaymentOptions(routeConfigOf(c))[i].dynamic
    /\ DescriptorOf(c.result.response).accepts = c.requirements

\* ------------------------------------------------------------------------
\* normalizePaymentOptions on its own: routes whose accepts is one option or
\* an array of up to MaxOptions options
\* ------------------------------------------------------------------------
MaxOptions == 4
PaymentOptions == {OptA, OptB, OptC}
AcceptsInputs ==
  {RouteConfig(FALSE, o, Undefined, Undefined, FALSE, NoExtensions) :
     o \in PaymentOptions}
  \cup {RouteConfig(TRUE, a, Undefined, Undefined, FALSE, NoExtensions) :
          a \in UNION {[1..n -> PaymentOptions] : n \in 0..MaxOptions}}

\* a route config, the option list derived from it, and what startup
\* validation reports for that list when the authority has nothing registered
OptionsProbe(config, applied, options, errors) ==
  [config |-> config, applied |-> applied, options |-> options, errors |-> errors]

InitOptions ==
  /\ call = [s \in Slots |-> IdleCall]
  /\ paywallProvider = Undefined
  /\ verified = {}
  /\ settleLog = <<>>
  /\ startup = "constructed"
  /\ probe \in {OptionsProbe(config, 0, <<>>, <<>>) : config \in AcceptsInputs}

\* normalizePaymentOptions(config)
NormalizeOptions ==
  /\ probe.applied = 0
  /\ probe' = [probe EXCEPT !.applied = 1,
                            !.options = normalizePaymentOptions(probe.config)]
  /\ UNCHANGED <<call, paywallProvider, verified, settleLog, startup>>

\* the inner loop of validateRouteConfiguration over the derived list
ValidateDerived ==
  /\ probe.applied = 1
  /\ probe' = [probe EXCEPT
                 !.applied = 2,
                 !.errors = ValidateOptions(<<"*">>, probe.options,
                              [registered |-> {}, supported |-> {}, asked |-> TRUE])]
  /\ UNCHANGED <<call, paywallProvider, verified, settleLog, startup>>

NextOptions == NormalizeOptions \/ ValidateDerived

SpecOptions == InitOptions /\ [][NextOptions]_vars

\* C27: the option list derived from a route's accepts is never empty; a
\* single option gives the one-element list of it, an array gives its
\* elements in the same order.
C27_NonEmptyOrdered ==
  probe.applied >= 1 =>
    /\ Len(probe.options) >= 1
    /\ ~probe.config.isArray => probe.options = <<probe.config.accepts>>
    /\ probe.config.isArray =>
         /\ Len(probe.options) = Len(probe.config.accepts)
         /\ \A i \in 1..Len(probe.options) : probe.options[i] = probe.config.accepts[i]

\* C28: on a route that declares extensions, the descriptor of every
\* payment-error response (unpaid, no match, invalid, thrown) carries the
\* extensions enrichExtensions returned for this request, not the declared ones.
C28_DescriptorsCarryEnriched ==
  \A s \in DOMAIN call :
    LET c == call[s] IN
    (PaymentError(c) /\ routeConfigOf(c).extensions # NoExtensions) =>
      /\ Answer(c, "enrichExtensions", "returned")
      /\ c.extensions.kind = "enriched"
      /\ c.paymentRequired.extensions = c.extensions
      /\ ~c.result.response.isHtml =>
           DescriptorOf(c.result.response).extensions = c.extensions

\* the collaborator calls of c that have not answered yet
InFlight(c) == {i \in DOMAIN c.trace : c.trace[i].outcome = "pending"}

\* C30: within one processHTTPRequest call at most one collaborator call is
\* in flight, and it is the latest one; the unpaid-response generator,
\* findMatchingRequirements and verifyPayment start only after
\* buildPaymentRequirementsFromOptions has returned; verifyPayment is invoked
\* at most once.
C30_StepsSequential ==
  \A s \in DOMAIN call :
    LET c == call[s] IN
    c.op = "processHTTPRequest" =>
      /\ Cardinality(InFlight(c)) <= 1
      /\ InFlight(c) \subseteq {Len(c.trace)}
      /\ Finished(c) => InFlight(c) = {}
      /\ \A i \in DOMAIN c.trace :
           c.trace[i].fn \in {"unpaidResponseBody", "findMatchingRequirements",
                              "verifyPayment"} =>
             \E j \in 1..(i - 1) :
               /\ c.trace[j].fn = "buildPaymentRequirementsFromOptions"
               /\ c.trace[j].outcome = "returned"
      /\ Calls(c, "verifyPayment") <= 1
      /\ Calls(c, "unpaidResponseBody") <= 1
      /\ Calls(c, "findMatchingRequirements") <= 1

\* verifyPayment in flight, after the build and the matching have answered
C30_Witness ==
  \E s \in DOMAIN call :
    LET c == call[s] IN
    /\ c.op = "processHTTPRequest" /\ c.pc = "awaitVerify"
    /\ Len(c.trace) >= 3
    /\ c.trace[1].fn = "buildPaymentRequirementsFromOptions"
    /\ c.trace[1].outcome = "returned"
    /\ c.trace[Len(c.trace)].fn = "verifyPayment"
    /\ InFlight(c) = {Len(c.trace)}

\* ------------------------------------------------------------------------
\* Two processHTTPRequest calls on one server, interleaved at their awaits
\* ------------------------------------------------------------------------
Requests == {1, 2}
ConcurrentPaths == {<<"/","a","p","i","/","x">>, <<"/","a","p","i","/","w","/">>}
ConcurrentMethods == {<<"g","e","t">>, <<"P","O","S","T">>}
ConcurrentHeaders == {[lower |-> Undefined, upper |-> Undefined],
                      [lower |-> "b64(p1)", upper |-> Undefined]}

\* what the adapter and the collaborators answered to one request, in the
\* order they were asked; "<none>" where they were not asked, and the awaits
\* that have answered
NoAnswers ==
  [path |-> <<>>, method |-> <<>>, header |-> "<none>",
   build |-> "<none>", enrich |-> "<none>", find |-> "<none>",
   afterBuild |-> "<none>", unpaid |-> "<none>", afterUnpaid |-> "<none>",
   verify |-> "<none>", answered |-> {}]

\* processHTTPRequest run from its start to its end, alone, on a server whose
\* paywall provider is provider, with the answers a
SoloRun(a, provider) ==
  LET c1 == Enter(a.path, a.method, a.header) IN
  IF c1.pc # "awaitBuild" \/ "build" \notin a.answered THEN c1
  ELSE
  LET c2 == AfterBuild(c1, a.build, a.enrich, a.find, a.afterBuild.accept,
                       a.afterBuild.userAgent, provider, a.afterBuild.html) IN
  IF c2.pc = "awaitUnpaid" /\ "unpaid" \in a.answered
  THEN AfterUnpaid(c2, a.unpaid, a.afterUnpaid.accept, a.afterUnpaid.userAgent,
                   provider, a.afterUnpaid.html)
  ELSE IF c2.pc = "awaitVerify" /\ "verify" \in a.answered
  THEN AfterVerify(c2, a.verify)
  ELSE c2

\* a step of request s writing the locals of another request as well: the
\* requirement set kept in a field of the server instead of a local
Interleaved_SharesRequirements(s, c) ==
  [t \in DOMAIN call |->
     IF t = s THEN c
     ELSE IF call[t].pc \in {"awaitUnpaid", "awaitVerify"}
          THEN [call[t] EXCEPT !.requirements = c.requirements]
          ELSE call[t]]

\* a step of request s: its locals are its own
Interleaved(s, c) == [call EXCEPT ![s] = c]

InitConcurrent ==
  /\ call = [s \in Requests |-> IdleCall]
  /\ paywallProvider \in {Undefined, "provider"}
  /\ verified = {}
  /\ settleLog = <<>>
  /\ startup = "constructed"
  /\ probe = [s \in Requests |-> NoAnswers]

ConcurrentEnter(s) ==
  /\ call[s].pc = "idle"
  /\ \E path \in ConcurrentPaths, method \in ConcurrentMethods,
        ha \in ConcurrentHeaders :
       /\ call' = Interleaved(s, Enter(path, method, ha))
       /\ probe' = [probe EXCEPT ![s].path = path, ![s].method = method,
                                 ![s].header = ha]
  /\ UNCHANGED <<paywallProvider, verified, settleLog, startup>>

ConcurrentBuildSettles(s) ==
  /\ call[s].op = "processHTTPRequest" /\ call[s].pc = "awaitBuild"
  /\ LET c == call[s]
         rc == routeConfigOf(c)
         unpaid == c.paymentPayload = Null
     IN  \E b \in BuildAnswers(normalizePaymentOptions(rc)) :
         \E e \in IF b.throws \/ rc.extensions = NoExtensions
                  THEN {[throws |-> FALSE, thrown |-> NothingThrown, value |-> rc.extensions]}
                  ELSE EnrichAnswers(rc.extensions) :
         \E f \in IF b.throws \/ e.throws \/ unpaid
                  THEN {NotAsked} ELSE FindAnswers(b.value) :
         \E r \in RenderAnswers(~b.throws /\ ~e.throws /\ unpaid /\ ~rc.unpaidResponseBody) :
           /\ call' = Interleaved(s, AfterBuild(c, b, e, f, r.accept, r.userAgent,
                                                paywallProvider, r.html))
           /\ probe' = [probe EXCEPT ![s].build = b, ![s].enrich = e, ![s].find = f,
                                     ![s].afterBuild = r,
                                     ![s].answered = @ \cup {"build"}]
  /\ UNCHANGED <<paywallProvider, verified, settleLog, startup>>

ConcurrentUnpaidSettles(s) ==
  /\ call[s].op = "processHTTPRequest" /\ call[s].pc = "awaitUnpaid"
  /\ \E u \in UnpaidAnswers :
     \E r \in RenderAnswers(~u.throws) :
       /\ call' = Interleaved(s, AfterUnpaid(call[s], u, r.accept, r.userAgent,
                                             paywallProvider, r.html))
       /\ probe' = [probe EXCEPT ![s].unpaid = u, ![s].afterUnpaid = r,
                                 ![s].answered = @ \cup {"unpaid"}]
  /\ UNCHANGED <<paywallProvider, verified, settleLog, startup>>

ConcurrentVerifySettles(s) ==
  /\ call[s].op = "processHTTPRequest" /\ call[s].pc = "awaitVerify"
  /\ \E v \in VerifyAnswers :
       /\ call' = Interleaved(s, AfterVerify(call[s], v))
       /\ probe' = [probe EXCEPT ![s].verify = v,
                                 ![s].answered = @ \cup {"verify"}]
  /\ UNCHANGED <<paywallProvider, verified, settleLog, startup>>

NextConcurrent ==
  \/ \E s \in Requests : ConcurrentEnter(s)
  \/ \E s \in Requests : ConcurrentBuildSettles(s)
  \/ \E s \in Requests : ConcurrentUnpaidSettles(s)
  \/ \E s \in Requests : ConcurrentVerifySettles(s)

SpecConcurrent == InitConcurrent /\ [][NextConcurrent]_vars

\* C31: whatever the other request does in between, a processHTTPRequest
\* call is at every suspension point, and at its end, where it would be if it
\* had run alone with the answers its own request got: same result, same
\* raised error, same collaborator calls.
C31_IndependentOfInterleaving ==
  \A s \in Requests :
    call[s].pc # "idle" => call[s] = SoloRun(probe[s], paywallProvider)

\* one request has returned its payment-error while the other, on another
\* route, is suspended in verifyPayment
C31_Witness ==
  /\ call[1].pc = "returned" /\ call[1].result.type = "payment-error"
  /\ Len(call[1].trace) >= 2
  /\ call[2].pc = "awaitVerify"
  /\ call[1].route # NoRoute /\ call[2].route # NoRoute
  /\ call[1].route # call[2].route
  /\ call[1] = SoloRun(probe[1], paywallProvider)

\* processHTTPRequest on (path, method) returns no-payment-required; it can
\* do so only before its first await
PassesThrough(path, method) ==
  \A ha \in HeaderAnswers :
    LET c == Enter(path, method, ha) IN
    c.pc = "returned" /\ c.result.type = "no-payment-required"

\* C32: requiresPayment answers true exactly for the requests that
\* processHTTPRequest on the same server does not pass through as
\* no-payment-required; processHTTPRequest passes a request through only at
\* its route lookup, and exactly when the first-match lookup over the
\* normalized path and upper-cased method finds no route.
C32_RequiresPaymentAgrees ==
  \A s \in DOMAIN call :
    LET c == call[s] IN
    /\ c.op = "requiresPayment" =>
         /\ c.pc = "returned"
         /\ c.requires = ~PassesThrough(c.path, c.method)
         /\ c.requires = (Accepting[c.path, c.method] # {})
    /\ (c.op = "processHTTPRequest" /\ Finished(c)) =>
         /\ (c.pc = "returned" /\ c.result.type = "no-payment-required")
              = PassesThrough(c.path, c.method)
         /\ PassesThrough(c.path, c.method) = (Accepting[c.path, c.method] = {})

\* "get /api/w/" requires payment; so does processHTTPRequest see it
C32_Witness ==
  \E s \in DOMAIN call :
    LET c == call[s] IN
    /\ c.op = "requiresPayment" /\ c.pc = "returned" /\ c.requires
    /\ c.path = <<"/","a","p","i","/","w","/">> /\ c.method = <<"g","e","t">>
    /\ ~PassesThrough(c.path, c.method)

\* every "/" of p written twice
RECURSIVE Doubled(_)
Doubled(p) ==
  IF p = <<>> THEN <<>>
  ELSE (IF p[1] = "/" THEN <<"/", "/">> ELSE <<p[1]>>) \o Doubled(Tail(p))
\* every "/" of p written as a backslash
Backslashed(p) == [i \in 1..Len(p) |-> IF p[i] = "/" THEN "\\" ELSE p[i]]
\* the paths that differ from p only by a query string, a fragment, repeated
\* separators, backslashes for separators, or a trailing separator
Variants(p) ==
  {p \o <<"?","q","=","1">>, p \o <<"#","f">>, p \o <<"/">>, Doubled(p),
   Backslashed(p)}

\* C33: a request whose path differs from another's only by a query string
\* or fragment, repeated separators, backslash for slash, or a trailing
\* separator is gated by a route exactly when the other is, also when the
\* path has a malformed percent escape.
C33_CanonicalFormDecides ==
  probe.applied =>
    \A v \in Variants(probe.path) :
      GatesOnly(probe.pattern, v, probe.method) = probe.gates

\* C34: every payment-error response has status 402; the HTML paywall
\* response has the Content-Type header and no other, the response that is
\* not HTML has Content-Type and PAYMENT-REQUIRED: PAYMENT-REQUIRED is there
\* exactly when the response is not the HTML paywall.
C34_HeaderUnlessHtml ==
  \A s \in DOMAIN call :
    LET c == call[s] IN
    PaymentError(c) =>
      LET response == c.result.response IN
      /\ response.status = 402
      /\ ("PAYMENT-REQUIRED" \in DOMAIN response.headers) = ~response.isHtml
      /\ response.isHtml =>
           /\ DOMAIN response.headers = {"Content-Type"}
           /\ response.headers["Content-Type"] = "text/html"
      /\ ~response.isHtml =>
           DOMAIN response.headers = {"Content-Type", "PAYMENT-REQUIRED"}

\* a paywall page and nothing machine-readable beside it
C34_Witness ==
  \E s \in DOMAIN call :
    LET c == call[s] IN
    /\ PaymentError(c) /\ c.result.response.isHtml
    /\ c.result.response.status = 402
    /\ "PAYMENT-REQUIRED" \notin DOMAIN c.result.response.headers
    /\ c.result.response.body.embeds = c.paymentRequired

\* ------------------------------------------------------------------------
\* The EVM paywall component: handlePayment
\* ------------------------------------------------------------------------
MaxAttempts == 2

\* the component between renders: what its hooks give (address, window.x402,
\* the wallet client, isCorrectChain), its state (isPaying, status), where
\* handlePayment stands, what getTokenBalance returned to it (-1 before it
\* did), and the outside
\* calls the attempt has made
Paywall(address, x402, walletClient, isCorrectChain) ==
  [address |-> address, x402 |-> x402, walletClient |-> walletClient,
   isCorrectChain |-> isCorrectChain,
   isPaying |-> FALSE, status |-> "", pc |-> "idle",
   balance |-> -1, readFailed |-> FALSE, trace |-> <<>>, attempts |-> 0]

InitPaywall ==
  /\ call = [s \in Slots |-> IdleCall]
  /\ paywallProvider = Undefined
  /\ verified = {}
  /\ settleLog = <<>>
  /\ startup = "constructed"
  /\ probe \in {Paywall(a, x, w, k) : a \in BOOLEAN, x \in BOOLEAN, w \in BOOLEAN,
                                      k \in {"true", "false", "null"}}

\* getTokenBalance reporting a failed read as a balance of one unit
getTokenBalance_HidesFailure(answer) == IF answer.throws THEN 1 ELSE answer.value

\* utils.ts getTokenBalance: the contract's answer, or 0 if the read throws
getTokenBalance(answer) == IF answer.throws THEN 0 ELSE answer.value

\* catch (error) { setStatus(...) } finally { setIsPaying(false) }
CatchFinally(p, thrown) ==
  [p EXCEPT !.status = IF thrown.isError THEN thrown.message ELSE "Payment failed",
            !.isPaying = FALSE, !.pc = "done"]

\* lines 136-150: after handleSwitchChain, to the await of getTokenBalance
AfterSwitch(p) ==
  IF ~p.walletClient
  THEN [p EXCEPT !.status = "Wallet client not available. Please reconnect your wallet.",
                 !.pc = "done"]
  ELSE [p EXCEPT !.isPaying = TRUE, !.status = "Checking TOKEN balance...",
                 !.pc = "awaitBalance", !.trace = Append(@, "readContract")]

\* lines 129-134: the Pay now click, to the await inside handleSwitchChain
HandlePayment ==
  /\ probe.pc \in {"idle", "done"}
  /\ probe.attempts < MaxAttempts
  /\ LET p == [probe EXCEPT !.attempts = @ + 1, !.trace = <<>>,
                            !.balance = -1, !.readFailed = FALSE]
     IN  probe' = IF ~p.address \/ ~p.x402 THEN [p EXCEPT !.pc = "done"]
                  ELSE IF p.isCorrectChain = "true" THEN AfterSwitch(p)
                  ELSE [p EXCEPT !.status = "", !.pc = "awaitSwitch",
                                 !.trace = Append(@, "switchChainAsync")]
  /\ UNCHANGED <<call, paywallProvider, verified, settleLog, startup>>

\* lines 93-97: switchChainAsync resolves, or rejects and the message is shown
SwitchSettles ==
  /\ probe.pc = "awaitSwitch"
  /\ \E rejected \in BOOLEAN :
       probe' = AfterSwitch(IF rejected
                            THEN [probe EXCEPT !.status = "User rejected the request"]
                            ELSE probe)
  /\ UNCHANGED <<call, paywallProvider, verified, settleLog, startup>>

\* lines 150-164: the balance is back
BalanceSettles ==
  /\ probe.pc = "awaitBalance"
  /\ \E answer \in {[throws |-> FALSE, value |-> 0], [throws |-> FALSE, value |-> 5],
                    [throws |-> TRUE, value |-> 0]} :
       LET balance == getTokenBalance(answer)
           p == [probe EXCEPT !.balance = balance, !.readFailed = answer.throws]
       IN  probe' =
             IF balance = 0
             THEN CatchFinally(p, Thrown(TRUE,
                    "Insufficient balance. Make sure you have TOKEN on Base"))
             ELSE [p EXCEPT !.status = "Creating payment signature...",
                            !.pc = "awaitPayload",
                            !.trace = Append(@, "createPaymentPayload")]
  /\ UNCHANGED <<call, paywallProvider, verified, settleLog, startup>>

\* lines 164-175: createPaymentPayload answers
PayloadSettles ==
  /\ probe.pc = "awaitPayload"
  /\ \E answer \in {"payload", "Error", "value"} :
       probe' = IF answer = "payload"
                THEN [probe EXCEPT !.status = "Requesting content with payment...",
                                   !.pc = "awaitFetch", !.trace = Append(@, "fetch")]
                ELSE CatchFinally(probe, Thrown(answer = "Error", "User denied signature"))
  /\ UNCHANGED <<call, paywallProvider, verified, settleLog, startup>>

\* lines 170-181: fetch answers
FetchSettles ==
  /\ probe.pc = "awaitFetch"
  /\ \E answer \in {"ok", "402", "Error"} :
       probe' = CASE answer = "ok" ->
                       [probe EXCEPT !.pc = "awaitSuccess",
                                     !.trace = Append(@, "onSuccessfulResponse")]
                  [] answer = "402" ->
                       CatchFinally(probe, Thrown(TRUE, "Request failed: 402 Payment Required"))
                  [] answer = "Error" ->
                       CatchFinally(probe, Thrown(TRUE, "Failed to fetch"))
  /\ UNCHANGED <<call, paywallProvider, verified, settleLog, startup>>

\* lines 178-186: onSuccessfulResponse resolves or rejects
SuccessSettles ==
  /\ probe.pc = "awaitSuccess"
  /\ \E rejected \in BOOLEAN :
       probe' = IF rejected THEN CatchFinally(probe, Thrown(TRUE, "render failed"))
                ELSE [probe EXCEPT !.isPaying = FALSE, !.pc = "done"]
  /\ UNCHANGED <<call, paywallProvider, verified, settleLog, startup>>

NextPaywall ==
  \/ HandlePayment
  \/ SwitchSettles
  \/ BalanceSettles
  \/ PayloadSettles
  \/ FetchSettles
  \/ SuccessSettles

SpecPaywall == InitPaywall /\ [][NextPaywall]_vars

\* C35: the paying flag is set only while an attempt is past its wallet
\* check and not finished, and is clear whenever the attempt has finished,
\* however it finished; an attempt whose balance came back 0 (read as 0, or
\* the read failed) has finished with the insufficient-balance message and
\* has neither created a payment payload nor sent the paid request.
C35_PayingFlagCleared ==
  /\ probe.pc \in {"idle", "done", "awaitSwitch"} => ~probe.isPaying
  /\ probe.pc \in {"awaitBalance", "awaitPayload", "awaitFetch", "awaitSuccess"} =>
       probe.isPaying
  /\ (probe.balance = 0 \/ probe.readFailed) =>
       /\ probe.pc = "done"
       /\ probe.status = "Insufficient balance. Make sure you have TOKEN on Base"
       /\ \A i \in 1..Len(probe.trace) :
            probe.trace[i] \notin {"createPaymentPayload", "fetch"}
  /\ \A i \in 1..Len(probe.trace) :
       probe.trace[i] \in {"createPaymentPayload", "fetch"} =>
         probe.balance > 0

\* the balance read failed: the attempt is over, the flag is clear
C35_Witness ==
  /\ probe.pc = "done" /\ probe.readFailed /\ probe.balance = 0
  /\ ~probe.isPaying
  /\ probe.trace[Len(probe.trace)] = "readContract"

====
